---- MODULE Spec2Model ----
(***************************************************************************)
(* gospec-cli: the extraction-and-conversion pipeline.                     *)
(*   CobraParser.Parse walks a cobra command tree into a ParsedCLI,        *)
(*   DefaultConverter.Convert turns the ParsedCLI into an OpenCLISpec.     *)
(* Go strings that the code takes apart (names, paths, keys, operation     *)
(* identifiers) are sequences of one-character strings; strings the code   *)
(* only copies or compares are TLA+ strings.                               *)
(***************************************************************************)
EXTENDS Integers, Sequences, FiniteSets, TLC

VARIABLES
  sourceType,  \* the dynamic type of the value handed over as source
  source,      \* the command tree behind source (empty unless a *cobra.Command)
  entry,       \* the command of the tree that source points to (0 if none)
  probe,       \* <<b>> once Supports(source) has returned b
  parsed,      \* the *ParsedCLI returned by Parse
  options,     \* the *ConvertOptions handed to Convert
  openCLI,     \* the *OpenCLISpec returned by Convert
  err,         \* the error returned by the last call
  pc,
  registry,    \* ParserRegistry.parsers: parser name -> parser
  registered,  \* the parsers handed to Register so far, in call order
  result,      \* what the last call on the registry or on GoSpec returned
  inv          \* the concurrent invocations of GoSpec.Convert and their locals

vars ==
  <<sourceType, source, entry, probe, parsed, options, openCLI, err, pc,
    registry, registered, result, inv>>

\* a nil pointer
Nil == [nil |-> TRUE]

(***************************************************************************)
(* Bounds of the input space.                                              *)
(***************************************************************************)
\* largest number of commands in a generated command tree
MaxNodes == 3
\* largest number of flags in one flag set of a generated command
MaxFlags == 2
\* largest number of Register calls on one registry
MaxRegistrations == 3

(***************************************************************************)
(* Strings.                                                                *)
(***************************************************************************)
LowerLetters ==
  <<"a","b","c","d","e","f","g","h","i","j","k","l","m",
    "n","o","p","q","r","s","t","u","v","w","x","y","z">>

UpperLetters ==
  <<"A","B","C","D","E","F","G","H","I","J","K","L","M",
    "N","O","P","Q","R","S","T","U","V","W","X","Y","Z">>

Digits == <<"0","1","2","3","4","5","6","7","8","9">>

SeqRange(s) == {s[i] : i \in DOMAIN s}

IndexOf(s, c) == CHOOSE i \in DOMAIN s : s[i] = c

\* unicode.ToUpper / unicode.ToTitle on one character
ToUpperChar(c) ==
  IF c \in SeqRange(LowerLetters) THEN UpperLetters[IndexOf(LowerLetters, c)] ELSE c

\* unicode.ToLower on one character
ToLowerChar(c) ==
  IF c \in SeqRange(UpperLetters) THEN LowerLetters[IndexOf(UpperLetters, c)] ELSE c

\* strings.ToLower
ToLower(s) == [i \in DOMAIN s |-> ToLowerChar(s[i])]

\* strings.isSeparator: ASCII letters, digits and underscore are not separators
isSeparator(c) ==
  ~(c \in SeqRange(LowerLetters) \/ c \in SeqRange(UpperLetters)
      \/ c \in SeqRange(Digits) \/ c = "_")

\* strings.Title: upper-cases the first letter of every word
Title(s) ==
  [i \in DOMAIN s |->
     IF i = 1 \/ isSeparator(s[i - 1]) THEN ToUpperChar(s[i]) ELSE s[i]]

\* strings.HasPrefix(s, "/")
HasSlashPrefix(s) == Len(s) > 0 /\ s[1] = "/"

RECURSIVE TrimLeftSlash(_)
TrimLeftSlash(s) ==
  IF Len(s) > 0 /\ s[1] = "/" THEN TrimLeftSlash(Tail(s)) ELSE s

RECURSIVE TrimRightSlash(_)
TrimRightSlash(s) ==
  IF Len(s) > 0 /\ s[Len(s)] = "/"
    THEN TrimRightSlash(SubSeq(s, 1, Len(s) - 1)) ELSE s

\* strings.Trim(s, "/")
TrimSlash(s) == TrimRightSlash(TrimLeftSlash(s))

\* strings.Split(s, "/"): never empty, Split("", "/") = [""]
RECURSIVE SplitFrom(_, _)
SplitFrom(s, cur) ==
  IF s = <<>> THEN <<cur>>
  ELSE IF Head(s) = "/" THEN <<cur>> \o SplitFrom(Tail(s), <<>>)
  ELSE SplitFrom(Tail(s), Append(cur, Head(s)))

SplitSlash(s) == SplitFrom(s, <<>>)

Slash == <<"/">>

\* map assignment m[k] = v
Put(m, k, v) == [x \in (DOMAIN m) \cup {k} |-> IF x = k THEN v ELSE m[x]]

EmptyMap == [x \in {} |-> Nil]

(***************************************************************************)
(* The source: a cobra command tree.  A tree is a sequence of commands,    *)
(* command 1 the root; parent is the index of the parent command (0 for    *)
(* the root) and cmd.Commands() lists the children in index order.         *)
(*   Use             the usage line, as its whitespace-separated fields    *)
(*   Flags           cmd.Flags(), in the order VisitAll visits them        *)
(*   PersistentFlags cmd.PersistentFlags(), in VisitAll order              *)
(*   Args            the positional-argument validator ("nil" when unset)  *)
(***************************************************************************)
S_ab      == <<"a","b">>
S_C_d     == <<"C","-","d">>
S_Ab      == <<"A","b">>
S_file    == <<"[","f","i","l","e","]">>
S_args    == <<"a","r","g","s">>
S_testapp == <<"t","e","s","t","a","p","p">>
S_user    == <<"u","s","e","r">>
S_create  == <<"c","r","e","a","t","e">>
S_json    == <<"j","s","o","n">>
S_yaml    == <<"y","a","m","l">>
S_Command == <<"C","o","m","m","a","n","d">>
S_rootCommand == <<"r","o","o","t">> \o S_Command

\* type tags, as the switch of mapTypeToSchemaType spells them
T_bool == <<"b","o","o","l">>
T_boolean == <<"b","o","o","l","e","a","n">>
T_int == <<"i","n","t">>
T_int8 == <<"i","n","t","8">>
T_int16 == <<"i","n","t","1","6">>
T_int32 == <<"i","n","t","3","2">>
T_int64 == <<"i","n","t","6","4">>
T_uint == <<"u","i","n","t">>
T_uint8 == <<"u","i","n","t","8">>
T_uint16 == <<"u","i","n","t","1","6">>
T_uint32 == <<"u","i","n","t","3","2">>
T_uint64 == <<"u","i","n","t","6","4">>
T_float == <<"f","l","o","a","t">>
T_float32 == <<"f","l","o","a","t","3","2">>
T_float64 == <<"f","l","o","a","t","6","4">>
T_string == <<"s","t","r","i","n","g">>
T_duration == <<"d","u","r","a","t","i","o","n">>
T_stringslice == <<"s","t","r","i","n","g","s","l","i","c","e">>
T_slice_of_string == <<"[","]","s","t","r","i","n","g">>
\* further type tags of flags: pflag's stringSlice, count and stringArray, and
\* spellings in other letter case
T_stringSlice == <<"s","t","r","i","n","g","S","l","i","c","e">>
T_count == <<"c","o","u","n","t">>
T_stringArray == <<"s","t","r","i","n","g","A","r","r","a","y">>
T_Bool == <<"B","o","o","l">>
T_INT64 == <<"I","N","T","6","4">>
T_Float32 == <<"F","l","o","a","t","3","2">>
T_Slice_Of_String == <<"[","]","S","t","r","i","n","g">>

\* a pflag.Flag
Flag(name, shorthand, type, hidden, deprecated, changed) ==
  [Name |-> name, Shorthand |-> shorthand, Type |-> type,
   Hidden |-> hidden, Deprecated |-> deprecated, Changed |-> changed]

\* a cobra.Command with nothing but its usage line set
PlainCommand(parent, use) ==
  [parent |-> parent, Use |-> use, Version |-> "", Long |-> "", Hidden |-> FALSE,
   Deprecated |-> "", Flags |-> <<>>, PersistentFlags |-> <<>>,
   ValidArgs |-> <<>>, Args |-> "nil", Annotations |-> EmptyMap,
   Merged |-> FALSE, Aliases |-> <<>>]

\* the parent vectors of the trees with n commands
ParentVectors(n) ==
  {v \in [1..n -> 0..(n - 1)] :
     /\ v[1] = 0
     /\ \A i \in 2..n : v[i] >= 1 /\ v[i] < i}

\* command names of the generated trees: empty, lower case, and one with an
\* upper-case first letter and a word separator
CommandNames == {<<>>, S_ab, S_Ab, S_C_d}

UseOfName(name) == IF name = <<>> THEN <<>> ELSE <<name>>

\* trees whose commands differ in their names only (sibling names may repeat)
NameTrees ==
  UNION {
    {[i \in 1..n |-> PlainCommand(pv[i], UseOfName(nm[i]))] :
       pv \in ParentVectors(n), nm \in [1..n -> CommandNames]}
    : n \in 1..MaxNodes}

DeprecationNotes == {"", "use another command"}

\* trees of distinctly named commands that differ in Hidden and Deprecated
VisibilityTrees ==
  UNION {
    {[i \in 1..n |->
        [PlainCommand(pv[i], <<(<<LowerLetters[i]>>)>>) EXCEPT
           !.Hidden = hd[i], !.Deprecated = dp[i]]] :
       pv \in ParentVectors(n), hd \in [1..n -> BOOLEAN],
       dp \in [1..n -> DeprecationNotes]}
    : n \in 1..MaxNodes}

FlagNamePool == <<"f","g","h","i","j","k">>

\* the flags a local flag set may hold under one name
LocalFlagVariants(name) ==
  { Flag(name, "", T_string, FALSE, "", FALSE),
    Flag(name, "", T_string, TRUE, "", FALSE),
    Flag(name, "", T_string, FALSE, "old flag", FALSE),
    Flag(name, "", T_string, FALSE, "", TRUE) }

\* the flags a persistent flag set may hold under one name
PersistentFlagVariants(name) ==
  { Flag(name, "", T_string, FALSE, "", FALSE),
    Flag(name, "", T_string, TRUE, "", FALSE),
    Flag(name, "", T_string, FALSE, "old flag", TRUE) }

\* flag sets, names ascending (pflag visits a flag set sorted by name, and a
\* flag set holds a name once): local sets over the first k names of the pool,
\* persistent sets over the k names from the second on, so that the two sets of
\* a command may share names and may have names of their own
RECURSIVE LocalFlagSets(_)
LocalFlagSets(k) ==
  IF k = 0 THEN {<<>>}
  ELSE LET rest == LocalFlagSets(k - 1)
       IN  rest \cup {Append(s, f) : s \in rest, f \in LocalFlagVariants(FlagNamePool[k])}

RECURSIVE PersistentFlagSets(_)
PersistentFlagSets(k) ==
  IF k = 0 THEN {<<>>}
  ELSE LET rest == PersistentFlagSets(k - 1)
       IN  rest \cup {Append(s, f) : s \in rest, f \in PersistentFlagVariants(FlagNamePool[k + 1])}

\* single commands, each with one valid argument value, that differ in their
\* local and persistent flag sets
FlagTrees ==
  {<<[PlainCommand(0, <<S_ab>>) EXCEPT
        !.Flags = lf, !.PersistentFlags = pf, !.ValidArgs = <<S_json>>]>> :
     lf \in LocalFlagSets(MaxFlags), pf \in PersistentFlagSets(MaxFlags)}

ArgsValidators ==
  {"nil", "NoArgs", "ExactArgs", "MinimumNArgs", "MaximumNArgs", "RangeArgs",
   "ArbitraryArgs"}

\* single commands that differ in usage line, ValidArgs and Args validator,
\* with and without a local and a persistent flag
ArgumentTrees ==
  {<<[PlainCommand(0, use) EXCEPT
        !.ValidArgs = va, !.Args = av, !.Flags = lf, !.PersistentFlags = pf]>> :
     use \in {<<S_ab>>, <<S_ab, S_file>>},
     va \in {<<>>, <<S_json>>, <<S_json, S_yaml>>},
     av \in ArgsValidators,
     lf \in {<<>>, <<Flag("f", "", T_string, FALSE, "", FALSE)>>},
     pf \in {<<>>, <<Flag("g", "", T_string, FALSE, "", FALSE)>>}}

\* the tree of TestCobraParser_Parse
TestTree ==
  << [PlainCommand(0, <<S_testapp>>) EXCEPT
        !.Version = "1.0.0",
        !.PersistentFlags =
           << Flag("config", "c", T_string, FALSE, "", FALSE),
              Flag("verbose", "v", T_bool, FALSE, "", FALSE) >>],
     PlainCommand(1, <<S_user>>),
     [PlainCommand(2, <<S_create>>) EXCEPT
        !.Flags = << Flag("username", "u", T_string, FALSE, "", FALSE) >>] >>

\* the local and persistent flag sets of a command of the trees below
SharedFlagChoices ==
  { [Flags |-> <<>>, PersistentFlags |-> <<>>],
    [Flags |-> <<Flag("f", "", T_string, FALSE, "", FALSE)>>, PersistentFlags |-> <<>>],
    [Flags |-> <<Flag("f", "", T_bool, TRUE, "", FALSE),
                 Flag("g", "", T_string, FALSE, "", FALSE)>>, PersistentFlags |-> <<>>],
    [Flags |-> <<>>, PersistentFlags |-> <<Flag("h", "", T_string, FALSE, "", FALSE)>>] }

\* a root and its children, all of different names, whose flag sets may share
\* flag names
SharedFlagTrees ==
  UNION {
    {[i \in 1..n |->
        [PlainCommand(IF i = 1 THEN 0 ELSE 1, <<(<<LowerLetters[i]>>)>>) EXCEPT
           !.Flags = fs[i].Flags, !.PersistentFlags = fs[i].PersistentFlags]] :
       fs \in [1..n -> SharedFlagChoices]}
    : n \in 2..MaxNodes}

\* what a command of the trees below says about itself: version, long
\* description and annotations (a nil and an empty annotation map behave alike)
MetadataChoices ==
  { [Version |-> "", Long |-> "", Annotations |-> EmptyMap],
    [Version |-> "1.0.0", Long |-> "A test application",
     Annotations |-> [k \in {"author", "license"} |->
                        IF k = "author" THEN "Test Author" ELSE "MIT"]],
    [Version |-> "2.0.0", Long |-> "Another description",
     Annotations |-> [k \in {"author", "license", "homepage", "repository", "team"} |->
                        CASE k = "author" -> ""
                          [] k = "license" -> "Apache-2.0"
                          [] k = "homepage" -> "https://example.com"
                          [] k = "repository" -> "https://github.com/user/repo"
                          [] OTHER -> "tools"]] }

\* trees of distinctly named commands that differ in version, long description
\* and annotations
MetadataTrees ==
  UNION {
    {[i \in 1..n |->
        [PlainCommand(pv[i], <<(<<LowerLetters[i]>>)>>) EXCEPT
           !.Version = md[i].Version, !.Long = md[i].Long,
           !.Annotations = md[i].Annotations]] :
       pv \in ParentVectors(n), md \in [1..n -> MetadataChoices]}
    : n \in 1..MaxNodes}

\* the strict ancestors of command i
RECURSIVE Ancestors(_, _)
Ancestors(tree, i) ==
  IF tree[i].parent = 0 THEN {}
  ELSE {tree[i].parent} \cup Ancestors(tree, tree[i].parent)

\* the persistent flags declared in the trees below: v on the root, w on the
\* second command; every command but the root declares the local flag p
MergedPersistent(i) ==
  IF i = 1 THEN <<Flag("v", "", T_bool, FALSE, "", FALSE)>>
  ELSE IF i = 2 THEN <<Flag("w", "", T_string, FALSE, "", FALSE)>>
  ELSE <<>>

\* cmd.Flags() of command i, names ascending: the local flag it declares and,
\* once cobra has merged the persistent flags into it (mergePersistentFlags,
\* run by ParseFlags, LocalFlags, InheritedFlags, ...), its own persistent
\* flags and those of its ancestors
MergedFlags(pv, i, merged) ==
  (IF i = 1 THEN <<>> ELSE <<Flag("p", "", T_int, FALSE, "", FALSE)>>)
    \o (IF merged /\ (i = 1 \/ 1 \in Ancestors([k \in DOMAIN pv |-> [parent |-> pv[k]]], i))
          THEN MergedPersistent(1) ELSE <<>>)
    \o (IF merged /\ (i = 2 \/ 2 \in Ancestors([k \in DOMAIN pv |-> [parent |-> pv[k]]], i))
          THEN MergedPersistent(2) ELSE <<>>)

\* trees with persistent flags, in which cobra has merged the flags of some
\* commands
MergedTrees ==
  UNION {
    {[i \in 1..n |->
        [PlainCommand(pv[i], <<(<<LowerLetters[i]>>)>>) EXCEPT
           !.Flags = MergedFlags(pv, i, mg[i]),
           !.PersistentFlags = MergedPersistent(i),
           !.Merged = mg[i]]] :
       pv \in ParentVectors(n), mg \in [1..n -> BOOLEAN]}
    : n \in 2..MaxNodes}

\* the type tags of the generated flags
TypeTags ==
  {T_bool, T_boolean, T_int, T_int8, T_int16, T_int32, T_int64,
   T_uint, T_uint8, T_uint16, T_uint32, T_uint64, T_float, T_float32, T_float64,
   T_string, T_duration, T_stringslice, T_slice_of_string,
   T_stringSlice, T_count, T_stringArray, T_Bool, T_INT64, T_Float32,
   T_Slice_Of_String, <<>>}

\* single commands with one local or one persistent flag of each type tag, and
\* one valid argument value
TypeTrees ==
  {<<[PlainCommand(0, <<S_ab>>) EXCEPT
        !.Flags = IF local THEN <<Flag("f", "", t, FALSE, "", FALSE)>> ELSE <<>>,
        !.PersistentFlags = IF local THEN <<>> ELSE <<Flag("f", "", t, FALSE, "", FALSE)>>,
        !.ValidArgs = <<S_json>>]>> :
     t \in TypeTags, local \in BOOLEAN}

\* the command trees handed to Parse by their root
Sources ==
  NameTrees \cup VisibilityTrees \cup FlagTrees \cup ArgumentTrees \cup TypeTrees
    \cup SharedFlagTrees \cup MetadataTrees \cup MergedTrees
    \cup {TestTree}

\* the commands of a tree that may be handed to Parse: the root, and for the
\* metadata trees any command
Entries(tree) == IF tree \in MetadataTrees THEN DOMAIN tree ELSE {1}

\* the dynamic types of the values handed over as source
SourceTypes == {"*cobra.Command", "string", "nil"}

(***************************************************************************)
(* CobraParser (pkg/parser/cobra).                                         *)
(* A ParsedCLI holds pointers to CommandInfo objects: infos maps the       *)
(* identity of every CommandInfo that Parse allocated (the index of the    *)
(* command it was parsed from) to its fields, and RootCommand, Commands,   *)
(* Parent and Subcommands hold identities.                                 *)
(***************************************************************************)
\* cobra's Command.Name(): the usage line up to its first space
CmdName(cmd) == IF cmd.Use = <<>> THEN <<>> ELSE cmd.Use[1]

\* cmd.Commands(): the children of command i
Children(tree, i) == {j \in DOMAIN tree : tree[j].parent = i}

\* FlagSet.Lookup(name) != nil
Lookup(flagSet, name) == \E i \in DOMAIN flagSet : flagSet[i].Name = name

parseFlag(flag, persistent) ==
  [Name |-> flag.Name, Shorthand |-> flag.Shorthand, Type |-> flag.Type,
   Hidden |-> flag.Hidden, Deprecated |-> flag.Deprecated,
   Persistent |-> persistent]

\* reflect.TypeOf(cmd.Args).String(): Args is a field of the named function type
\* cobra.PositionalArgs, whatever validator it holds
ArgsTypeName(validator) ==
  <<"c","o","b","r","a",".","P","o","s","i","t","i","o","n","a","l","A","r","g","s">>

\* strings.Contains
Contains(s, sub) ==
  \E i \in 0..(Len(s) - Len(sub)) : SubSeq(s, i + 1, i + Len(sub)) = sub

inferArgsArity(cmd) ==
  IF cmd.Args = "nil" THEN <<0, -1>>
  ELSE LET argsName == ArgsTypeName(cmd.Args)
       IN  IF Contains(argsName, <<"N","o","A","r","g","s">>) THEN <<0, 0>>
           ELSE IF Contains(argsName, <<"E","x","a","c","t","A","r","g","s">>) THEN <<1, 1>>
           ELSE IF Contains(argsName, <<"M","i","n","i","m","u","m","N","A","r","g","s">>) THEN <<1, -1>>
           ELSE IF Contains(argsName, <<"M","a","x","i","m","u","m","N","A","r","g","s">>) THEN <<0, 1>>
           ELSE IF Contains(argsName, <<"R","a","n","g","e","A","r","g","s">>) THEN <<1, -1>>
           ELSE <<0, -1>>

\* parseArguments numbering the ValidArgs arguments by the 0-based loop index
parseArgumentsZeroBased(cmd) ==
  IF Len(cmd.ValidArgs) > 0
    THEN [i \in 1..Len(cmd.ValidArgs) |->
            [Name |-> cmd.ValidArgs[i], Position |-> i - 1, Required |-> TRUE,
             Type |-> T_string, MinArgs |-> 0, MaxArgs |-> 0,
             ValidValues |-> <<cmd.ValidArgs[i]>>]]
  ELSE <<>>

parseArguments(cmd) ==
  IF Len(cmd.ValidArgs) > 0
    THEN [i \in 1..Len(cmd.ValidArgs) |->
            [Name |-> cmd.ValidArgs[i], Position |-> i, Required |-> TRUE,
             Type |-> T_string, MinArgs |-> 0, MaxArgs |-> 0,
             ValidValues |-> <<cmd.ValidArgs[i]>>]]
  ELSE IF cmd.Args # "nil"
    THEN LET arity   == inferArgsArity(cmd)
             minArgs == arity[1]
             maxArgs == arity[2]
             argName == IF Len(cmd.Use) > 1 THEN cmd.Use[2] ELSE S_args
         IN  IF minArgs > 0 \/ maxArgs > 0
               THEN << [Name |-> argName, Position |-> 1, Required |-> minArgs > 0,
                        Type |-> T_string, MinArgs |-> minArgs, MaxArgs |-> maxArgs,
                        ValidValues |-> <<>>] >>
               ELSE <<>>
  ELSE <<>>

\* parseCommand joining with "/" without looking at the parent path or the name
CommandPathAlwaysJoined(cmd, parentPath) == parentPath \o Slash \o CmdName(cmd)

\* the path parseCommand builds
CommandPath(cmd, parentPath) ==
  IF CmdName(cmd) # <<>>
    THEN IF parentPath = <<>> THEN CmdName(cmd)
         ELSE parentPath \o Slash \o CmdName(cmd)
  ELSE parentPath

\* the VisitAll callback on cmd.Flags() appends the flag unless it returns early
LocalFlagKept(cmd, flag) ==
  ~(~flag.Changed /\ Lookup(cmd.PersistentFlags, flag.Name))

RECURSIVE MapLocalFlags(_, _)
MapLocalFlags(cmd, flags) ==
  IF flags = <<>> THEN <<>>
  ELSE (IF LocalFlagKept(cmd, Head(flags))
          THEN <<parseFlag(Head(flags), FALSE)>> ELSE <<>>)
       \o MapLocalFlags(cmd, Tail(flags))

parseCommand(cmd, parent, parentPath) ==
  [Name            |-> CmdName(cmd),
   Path            |-> CommandPath(cmd, parentPath),
   Use             |-> cmd.Use,
   Aliases         |-> cmd.Aliases,
   Version         |-> cmd.Version,
   Parent          |-> parent,
   Subcommands     |-> <<>>,
   Flags           |-> MapLocalFlags(cmd, cmd.Flags),
   PersistentFlags |-> [i \in DOMAIN cmd.PersistentFlags |->
                          parseFlag(cmd.PersistentFlags[i], TRUE)],
   Args            |-> parseArguments(cmd),
   Hidden          |-> cmd.Hidden,
   Deprecated      |-> cmd.Deprecated]

\* the CommandInfo object that parseCommand allocates (info := &CommandInfo{...})
\* and the ArgumentInfo objects it holds, at their addresses: Addr is what a
\* pointer to the object holds, the identity of the command for a CommandInfo
\* and <<that identity, index>> for an ArgumentInfo
At(info, addr) ==
  [Addr |-> addr] @@
  [info EXCEPT !.Args = [k \in DOMAIN @ |-> [Addr |-> <<addr, k>>] @@ @[k]]]

\* parseSubcommands(cmd i, parentInfo = infos[i], commandMap); p holds the
\* CommandInfo objects and the command map built so far, kids the children of
\* command i still to visit
RECURSIVE parseSubcommandsFrom(_, _, _, _)
parseSubcommandsFrom(tree, i, kids, p) ==
  IF kids = {} THEN p
  ELSE LET j       == CHOOSE k \in kids : \A m \in kids : k <= m
           subInfo == At(parseCommand(tree[j], i, p.infos[i].Path), j)
           p1 == [infos    |-> Put([p.infos EXCEPT ![i].Subcommands = Append(@, j)],
                                   j, subInfo),
                  Commands |-> Put(p.Commands, subInfo.Path, j)]
           p2 == parseSubcommandsFrom(tree, j, Children(tree, j), p1)
       IN  parseSubcommandsFrom(tree, i, kids \ {j}, p2)

parseSubcommands(tree, i, p) == parseSubcommandsFrom(tree, i, Children(tree, i), p)

\* the loop `for root.Parent() != nil` of extractMetadata
RECURSIVE Root(_, _)
Root(tree, i) == IF tree[i].parent = 0 THEN i ELSE Root(tree, tree[i].parent)

\* annotations[key] if present, else the zero value the field keeps
Annotation(cmd, key) ==
  IF key \in DOMAIN cmd.Annotations THEN cmd.Annotations[key] ELSE ""

\* extractMetadata reading the command it is given instead of the root
extractMetadataOfCommand(tree, e) ==
  LET root == tree[e]
  IN  [Name        |-> CmdName(root),
       Version     |-> root.Version,
       Description |-> root.Long,
       Author      |-> Annotation(root, "author"),
       License     |-> Annotation(root, "license"),
       Homepage    |-> Annotation(root, "homepage"),
       Repository  |-> Annotation(root, "repository")]

extractMetadata(tree, e) ==
  LET root == tree[Root(tree, e)]
  IN  [Name        |-> CmdName(root),
       Version     |-> root.Version,
       Description |-> root.Long,
       Author      |-> Annotation(root, "author"),
       License     |-> Annotation(root, "license"),
       Homepage    |-> Annotation(root, "homepage"),
       Repository  |-> Annotation(root, "repository")]

\* the sentinel errors and ParserError values; Cause is the wrapped error
ErrNoSuitableParser == [Message |-> "no suitable parser found for source", Cause |-> Nil]
ErrInvalidSource    == [Message |-> "invalid source provided", Cause |-> Nil]
ErrParsingFailed    == [Message |-> "parsing failed", Cause |-> Nil]

\* the error Parse returns for an unsupported source, without its cause
NotACommandErrorNoCause ==
  [Message |-> "source is not a *cobra.Command", Cause |-> Nil]

\* the error Parse returns for an unsupported source
NotACommandError ==
  [Message |-> "source is not a *cobra.Command", Cause |-> ErrInvalidSource]

\* CobraParser.Supports: the type assertion source.(*cobra.Command)
Supports(type) == type = "*cobra.Command"

\* CobraParser.Parse on a source of dynamic type `type` that, if a
\* *cobra.Command, is command e of `tree`; the result is [parsed, err]
Parse(type, tree, e) ==
  IF type # "*cobra.Command" THEN [parsed |-> Nil, err |-> NotACommandError]
  ELSE
    LET rootInfo == At(parseCommand(tree[e], 0, <<>>), e)
        p0 == [infos    |-> Put(EmptyMap, e, rootInfo),
               Commands |-> Put(EmptyMap, rootInfo.Path, e)]
        p  == parseSubcommands(tree, e, p0)
    IN  [parsed |-> [RootCommand |-> e, Commands |-> p.Commands, infos |-> p.infos,
                     Metadata |-> extractMetadata(tree, e)],
         err |-> Nil]

(***************************************************************************)
(* DefaultConverter (pkg/converter).                                       *)
(***************************************************************************)
DefaultConvertOptions ==
  [SpecVersion |-> "1.0.0", IncludeHidden |-> FALSE, IncludeDeprecated |-> TRUE,
   GenerateOperationIDs |-> TRUE, ExtractComponents |-> TRUE, CustomInfo |-> Nil]

\* the options values Convert is called with; Nil is a nil *ConvertOptions
OptionInputs ==
  {Nil} \cup
  [SpecVersion : {"1.0.0"}, IncludeHidden : BOOLEAN, IncludeDeprecated : BOOLEAN,
   GenerateOperationIDs : BOOLEAN, ExtractComponents : BOOLEAN, CustomInfo : {Nil}]

\* Convert replaces nil options by the defaults
EffectiveOptions(opts) == IF opts = Nil THEN DefaultConvertOptions ELSE opts

\* mapTypeToSchemaType switching on the tag as it is, without strings.ToLower
mapTypeToSchemaTypeCaseSensitive(typeName) ==
  LET t == typeName
  IN  CASE t \in {T_bool, T_boolean} -> "boolean"
        [] t \in {T_int, T_int8, T_int16, T_int32, T_int64,
                  T_uint, T_uint8, T_uint16, T_uint32, T_uint64} -> "integer"
        [] t \in {T_float, T_float32, T_float64} -> "number"
        [] t \in {T_stringslice, T_slice_of_string} -> "array"
        [] OTHER -> "string"

mapTypeToSchemaType(typeName) ==
  LET t == ToLower(typeName)
  IN  CASE t \in {T_bool, T_boolean} -> "boolean"
        [] t \in {T_int, T_int8, T_int16, T_int32, T_int64,
                  T_uint, T_uint8, T_uint16, T_uint32, T_uint64} -> "integer"
        [] t \in {T_float, T_float32, T_float64} -> "number"
        [] t = T_string -> "string"
        [] t = T_duration -> "string"
        [] t \in {T_stringslice, T_slice_of_string} -> "array"
        [] OTHER -> "string"

\* convertFlag ignoring its scope argument
convertFlagAlwaysLocal(flag, scope) ==
  [Name |-> flag.Name, In |-> "flag", Scope |-> "local",
   Deprecated |-> flag.Deprecated # "", Hidden |-> flag.Hidden,
   Position |-> 0, SchemaType |-> mapTypeToSchemaType(flag.Type),
   Alias |-> IF flag.Shorthand # "" THEN <<flag.Shorthand>> ELSE <<>>,
   Arity |-> Nil]

convertFlag(flag, scope) ==
  [Name |-> flag.Name, In |-> "flag", Scope |-> scope,
   Deprecated |-> flag.Deprecated # "", Hidden |-> flag.Hidden,
   Position |-> 0, SchemaType |-> mapTypeToSchemaType(flag.Type),
   Alias |-> IF flag.Shorthand # "" THEN <<flag.Shorthand>> ELSE <<>>,
   Arity |-> Nil]

\* a pointer into the ParsedCLI is the address of the object and the field it
\* points at; a slice that shares its backing array with a slice of the
\* ParsedCLI is the address of the object holding that slice and its length
AddressOf(object, field) == [object |-> object.Addr, field |-> field]

\* the slice value `s` held in `field` of `object`, copied as a slice header
SliceOf(object, field) ==
  IF object[field] = <<>> THEN Nil
  ELSE [array |-> AddressOf(object, field), len |-> Len(object[field])]

\* param.Arity.Max = &arg.MaxArgs is a pointer to the field of the ArgumentInfo
convertArgument(arg) ==
  [Name |-> arg.Name, In |-> "argument", Scope |-> "local",
   Deprecated |-> FALSE, Hidden |-> FALSE,
   Position |-> arg.Position, SchemaType |-> mapTypeToSchemaType(arg.Type),
   Alias |-> <<>>,
   Arity |-> IF arg.MinArgs > 0 \/ arg.MaxArgs # 0
               THEN [Min |-> arg.MinArgs,
                     Max |-> IF arg.MaxArgs > 0 THEN AddressOf(arg, "MaxArgs") ELSE Nil]
               ELSE Nil]

\* the later segments appended as they are, without strings.Title
RECURSIVE JoinPlain(_)
JoinPlain(parts) ==
  IF parts = <<>> THEN <<>> ELSE Head(parts) \o JoinPlain(Tail(parts))

RECURSIVE JoinTitled(_)
JoinTitled(parts) ==
  IF parts = <<>> THEN <<>> ELSE Title(Head(parts)) \o JoinTitled(Tail(parts))

\* generateOperationID returning the constant for a path of one segment
generateOperationIDRootConstant(cmdInfo) ==
  LET parts == SplitSlash(TrimSlash(cmdInfo.Path))
  IN  IF Len(parts) <= 1 THEN S_rootCommand
      ELSE parts[1] \o JoinTitled(Tail(parts)) \o S_Command

generateOperationID(cmdInfo) ==
  LET parts == SplitSlash(TrimSlash(cmdInfo.Path))
  IN  IF Len(parts) = 0 THEN S_rootCommand
      ELSE parts[1] \o JoinTitled(Tail(parts)) \o S_Command

\* the flag guard also dropping deprecated flags as the command guard does
FlagSkippedDeprecatedToo(flag, opts) ==
  \/ ~opts.IncludeHidden /\ flag.Hidden
  \/ ~opts.IncludeDeprecated /\ flag.Deprecated # ""

\* the guard of the two loops over flags in convertCommand
FlagSkipped(flag, opts) == ~opts.IncludeHidden /\ flag.Hidden

RECURSIVE convertFlags(_, _, _)
convertFlags(flags, scope, opts) ==
  IF flags = <<>> THEN <<>>
  ELSE (IF FlagSkipped(Head(flags), opts) THEN <<>>
        ELSE <<convertFlag(Head(flags), scope)>>)
       \o convertFlags(Tail(flags), scope, opts)

\* Aliases: cmdInfo.Aliases copies the slice header, not the elements
convertCommand(cmdInfo, opts) ==
  [Aliases     |-> SliceOf(cmdInfo, "Aliases"),
   Deprecated  |-> cmdInfo.Deprecated # "",
   Hidden      |-> cmdInfo.Hidden,
   OperationID |-> IF opts.GenerateOperationIDs
                     THEN generateOperationID(cmdInfo) ELSE <<>>,
   Parameters  |-> convertFlags(cmdInfo.Flags, "local", opts)
                   \o convertFlags(cmdInfo.PersistentFlags, "inherited", opts)
                   \o [i \in DOMAIN cmdInfo.Args |-> convertArgument(cmdInfo.Args[i])]]

\* the loop guard without the test of Deprecated
CommandSkippedHiddenOnly(cmdInfo, opts) == ~opts.IncludeHidden /\ cmdInfo.Hidden

\* the two `continue` guards of the loop over parsed.Commands
CommandSkipped(cmdInfo, opts) ==
  \/ ~opts.IncludeHidden /\ cmdInfo.Hidden
  \/ ~opts.IncludeDeprecated /\ cmdInfo.Deprecated # ""

\* the key Convert stores a command under
CommandKey(path, cmdInfo) ==
  LET key == IF ~HasSlashPrefix(path) /\ path # cmdInfo.Name
               THEN Slash \o path ELSE path
  IN  IF path = cmdInfo.Name THEN cmdInfo.Name ELSE key

\* the orders in which a range loop may visit the keys of map m
RangeOrders(m) ==
  {o \in [1..Cardinality(DOMAIN m) -> DOMAIN m] :
     \A i, j \in DOMAIN o : i # j => o[i] # o[j]}

InfoAt(p, path) == p.infos[p.Commands[path]]

\* the loop over parsed.Commands in Convert, visiting the paths in `order`
RECURSIVE convertCommands(_, _, _, _)
convertCommands(p, opts, order, commands) ==
  IF order = <<>> THEN commands
  ELSE LET path    == Head(order)
           cmdInfo == InfoAt(p, path)
       IN  convertCommands(p, opts, Tail(order),
             IF CommandSkipped(cmdInfo, opts) THEN commands
             ELSE Put(commands, CommandKey(path, cmdInfo), convertCommand(cmdInfo, opts)))

\* the first loop of extractComponents: counts per flag name and the first
\* flag seen under each name; c = [paramCounts, paramMap]
RECURSIVE countFlags(_, _)
countFlags(flags, c) ==
  IF flags = <<>> THEN c
  ELSE LET key == Head(flags).Name
           n   == IF key \in DOMAIN c.paramCounts THEN c.paramCounts[key] + 1 ELSE 1
       IN  countFlags(Tail(flags),
             [paramCounts |-> Put(c.paramCounts, key, n),
              paramMap    |-> IF n = 1 THEN Put(c.paramMap, key, Head(flags))
                              ELSE c.paramMap])

RECURSIVE countCommands(_, _, _)
countCommands(p, order, c) ==
  IF order = <<>> THEN c
  ELSE countCommands(p, Tail(order), countFlags(InfoAt(p, Head(order)).Flags, c))

\* extractComponents lifting every counted flag name (count > 0)
extractComponentsEveryName(p, opts, order) ==
  LET c == countCommands(p, order, [paramCounts |-> EmptyMap, paramMap |-> EmptyMap])
      shared == {n \in DOMAIN c.paramCounts : c.paramCounts[n] > 0}
  IN  [Parameters |-> [n \in shared |-> convertFlag(c.paramMap[n], "local")],
       Responses  |-> {"Success", "Error"}]

extractComponents(p, opts, order) ==
  LET c == countCommands(p, order, [paramCounts |-> EmptyMap, paramMap |-> EmptyMap])
      shared == {n \in DOMAIN c.paramCounts : c.paramCounts[n] > 1}
  IN  [Parameters |-> [n \in shared |-> convertFlag(c.paramMap[n], "local")],
       Responses  |-> {"Success", "Error"}]

\* convertInfo giving a contact only when both author and homepage are set
convertInfoContactNeedsBoth(metadata, opts) ==
  IF opts.CustomInfo # Nil THEN opts.CustomInfo
  ELSE [Title       |-> metadata.Name,
        Description |-> metadata.Description,
        Version     |-> metadata.Version,
        Contact     |-> IF metadata.Author # "" /\ metadata.Homepage # ""
                          THEN [Name |-> metadata.Author, URL |-> metadata.Homepage]
                          ELSE Nil,
        License     |-> IF metadata.License # ""
                          THEN [Name |-> metadata.License] ELSE Nil]

\* convertInfo on a non-nil metadata, or with CustomInfo set
convertInfo(metadata, opts) ==
  IF opts.CustomInfo # Nil THEN opts.CustomInfo
  ELSE [Title       |-> metadata.Name,
        Description |-> metadata.Description,
        Version     |-> metadata.Version,
        Contact     |-> IF metadata.Author # "" \/ metadata.Homepage # ""
                          THEN [Name |-> metadata.Author, URL |-> metadata.Homepage]
                          ELSE Nil,
        License     |-> IF metadata.License # ""
                          THEN [Name |-> metadata.License] ELSE Nil]

\* the error of Convert on a nil ParsedCLI: fmt.Errorf("parsed CLI is nil")
ParsedIsNilError == [Message |-> "parsed CLI is nil", Cause |-> Nil]

\* Convert taking the flags lifted into the components out of the commands
ConvertSpecLifting(p, options_in, order1, order2) ==
  LET opts  == EffectiveOptions(options_in)
      cmds  == convertCommands(p, opts, order1, EmptyMap)
      comps == IF opts.ExtractComponents
                 THEN extractComponents(p, opts, order2) ELSE Nil
      Inline(param) == ~(param.In = "flag" /\ param.Name \in DOMAIN comps.Parameters)
  IN  [OpenCLI    |-> opts.SpecVersion,
       Info       |-> convertInfo(p.Metadata, opts),
       Commands   |-> IF comps = Nil THEN cmds
                      ELSE [k \in DOMAIN cmds |->
                              [cmds[k] EXCEPT !.Parameters = SelectSeq(@, Inline)]],
       Components |-> comps]

\* DefaultConverter.Convert on a ParsedCLI with Metadata; order1 and order2
\* are the iteration orders of the two loops over the map parsed.Commands
ConvertSpec(p, options_in, order1, order2) ==
  LET opts == EffectiveOptions(options_in)
  IN  [OpenCLI    |-> opts.SpecVersion,
       Info       |-> convertInfo(p.Metadata, opts),
       Commands   |-> convertCommands(p, opts, order1, EmptyMap),
       Components |-> IF opts.ExtractComponents
                        THEN extractComponents(p, opts, order2) ELSE Nil]

\* Go leaves the iteration order of a map unspecified.  The commands loop can
\* depend on it only when two paths get the same key, the components loop only
\* when a flag name is local to two commands; otherwise one order stands for all.
KeysCollide(p) ==
  \E a, b \in DOMAIN p.Commands :
     a # b /\ CommandKey(a, InfoAt(p, a)) = CommandKey(b, InfoAt(p, b))

FlagNameShared(p) ==
  \E a, b \in DOMAIN p.Commands :
     /\ a # b
     /\ \E i \in DOMAIN InfoAt(p, a).Flags : Lookup(InfoAt(p, b).Flags, InfoAt(p, a).Flags[i].Name)

OneOrder(m) == CHOOSE o \in RangeOrders(m) : TRUE

CommandLoopOrders(p) ==
  IF p = Nil THEN {<<>>}
  ELSE IF KeysCollide(p) THEN RangeOrders(p.Commands) ELSE {OneOrder(p.Commands)}

ComponentLoopOrders(p, options_in) ==
  IF p = Nil THEN {<<>>}
  ELSE IF EffectiveOptions(options_in).ExtractComponents /\ FlagNameShared(p)
    THEN RangeOrders(p.Commands) ELSE {OneOrder(p.Commands)}

\* the outcome of a call of Convert: the values returned, whether the call
\* panicked instead of returning, and the ParsedCLI and the options object of
\* the caller as the call leaves them
Returned(spec, e, p, options_in) ==
  [spec |-> spec, err |-> e, panic |-> FALSE, parsed |-> p, options |-> options_in]

Panicked(p, options_in) ==
  [spec |-> Nil, err |-> Nil, panic |-> TRUE, parsed |-> p, options |-> options_in]

\* Convert answering a nil ParsedCLI with an empty specification and no error
ConvertNilTolerant(p, options_in, order1, order2) ==
  IF p = Nil
    THEN Returned([OpenCLI    |-> EffectiveOptions(options_in).SpecVersion,
                   Info       |-> Nil,
                   Commands   |-> EmptyMap,
                   Components |-> Nil], Nil, p, options_in)
  ELSE IF p.Metadata = Nil THEN Panicked(p, options_in)
  ELSE Returned(ConvertSpec(p, options_in, order1, order2), Nil, p, options_in)

\* the entries of the Commands map that the commands loop skips
SkippedPaths(p, options_in) ==
  {path \in DOMAIN p.Commands : CommandSkipped(InfoAt(p, path), EffectiveOptions(options_in))}

\* Convert deleting the commands it skips from the Commands map of its input
ConvertFilteringInPlace(p, options_in, order1, order2) ==
  IF p = Nil THEN Returned(Nil, ParsedIsNilError, p, options_in)
  ELSE IF p.Metadata = Nil THEN Panicked(p, options_in)
  ELSE Returned(ConvertSpec(p, options_in, order1, order2), Nil,
                [p EXCEPT !.Commands =
                   [path \in DOMAIN @ \ SkippedPaths(p, options_in) |-> @[path]]],
                options_in)

\* DefaultConverter.Convert.  With a nil Metadata the call panics with a nil
\* pointer dereference: len(parsed.Metadata.Tags) reads through the pointer
\* whatever the options are, and convertInfo reads metadata.Name when no
\* CustomInfo is set.  No statement writes through parsed or options: a nil
\* options is replaced in the local variable only.
Convert(p, options_in, order1, order2) ==
  IF p = Nil THEN Returned(Nil, ParsedIsNilError, p, options_in)
  ELSE IF p.Metadata = Nil THEN Panicked(p, options_in)
  ELSE Returned(ConvertSpec(p, options_in, order1, order2), Nil, p, options_in)

(***************************************************************************)
(* Parsers, the ParserRegistry and GoSpec.                                 *)
(***************************************************************************)
\* the CobraParser, and parsers a caller may register besides it: a Parser is
\* given by its Name(), the dynamic types its Supports accepts and what its
\* Parse does
CobraParser == [Name |-> "cobra", Accepts |-> {"*cobra.Command"}, Behaviour |-> "cobra"]

FailingParser == [Name |-> "custom", Accepts |-> {"string"}, Behaviour |-> "fail"]

NilParser == [Name |-> "custom", Accepts |-> {"string", "nil"}, Behaviour |-> "nil"]

FixedParser ==
  [Name |-> "other", Accepts |-> {"*cobra.Command", "string"}, Behaviour |-> "fixed"]

ParserPool == {CobraParser, FailingParser, NilParser, FixedParser}

\* the ParsedCLI FixedParser returns for every source
FixedParsed == Parse("*cobra.Command", <<PlainCommand(0, <<S_ab>>)>>, 1).parsed

\* the error FailingParser returns
ParseFailedError == [Message |-> "cannot read source", Cause |-> ErrParsingFailed]

\* parser.Supports(source)
ParserSupports(parser, type) ==
  IF parser.Behaviour = "cobra" THEN Supports(type) ELSE type \in parser.Accepts

\* parser.Parse(source); the result is [parsed, err]
ParserParse(parser, type, tree, e) ==
  CASE parser.Behaviour = "cobra" -> Parse(type, tree, e)
    [] parser.Behaviour = "fail"  -> [parsed |-> Nil, err |-> ParseFailedError]
    [] parser.Behaviour = "nil"   -> [parsed |-> Nil, err |-> Nil]
    [] OTHER                      -> [parsed |-> FixedParsed, err |-> Nil]

NewParserRegistry == EmptyMap

\* Register keeping the parser a name already has
RegisterKeepFirst(r, parser) ==
  IF parser.Name \in DOMAIN r THEN r ELSE Put(r, parser.Name, parser)

\* r.parsers[parser.Name()] = parser
Register(r, parser) == Put(r, parser.Name, parser)

\* the result is [parser, ok]
Get(r, name) ==
  IF name \in DOMAIN r THEN [parser |-> r[name], ok |-> TRUE]
  ELSE [parser |-> Nil, ok |-> FALSE]

\* List appends the names as the range loop over r.parsers visits them
RECURSIVE List(_, _)
List(r, order) ==
  IF order = <<>> THEN <<>> ELSE <<Head(order)>> \o List(r, Tail(order))

\* FindParser returning the first parser visited without probing it
RECURSIVE FindParserUnprobed(_, _, _)
FindParserUnprobed(r, type, order) ==
  IF order = <<>> THEN [parser |-> Nil, err |-> ErrNoSuitableParser]
  ELSE [parser |-> r[Head(order)], err |-> Nil]

\* FindParser, the range loop over r.parsers visiting the names in `order`;
\* the result is [parser, err]
RECURSIVE FindParser(_, _, _)
FindParser(r, type, order) ==
  IF order = <<>> THEN [parser |-> Nil, err |-> ErrNoSuitableParser]
  ELSE IF ParserSupports(r[Head(order)], type)
         THEN [parser |-> r[Head(order)], err |-> Nil]
         ELSE FindParser(r, type, Tail(order))

\* fmt.Errorf(message + ": %w", cause)
Errorf(message, cause) == [Message |-> message, Cause |-> cause]

\* GoSpec.Convert going on to the converter after a failed Parse
GoSpecConvertNoReturn(r, type, tree, e, opts, porder, order1, order2) ==
  LET f == FindParser(r, type, porder)
  IN  IF f.err # Nil
        THEN [spec |-> Nil, err |-> Errorf("failed to find parser", f.err),
              calls |-> <<"FindParser">>]
        ELSE LET pr == ParserParse(f.parser, type, tree, e)
                 c  == Convert(pr.parsed, opts, order1, order2)
             IN  IF c.err # Nil
                   THEN [spec |-> Nil,
                         err |-> Errorf("failed to convert to OpenCLI spec", c.err),
                         calls |-> <<"FindParser", "Parse", "Convert">>]
                   ELSE [spec |-> c.spec, err |-> Nil,
                         calls |-> <<"FindParser", "Parse", "Convert">>]

\* GoSpec.Convert with the default converter; calls lists the stages invoked,
\* the result is [spec, err, calls]
GoSpecConvert(r, type, tree, e, opts, porder, order1, order2) ==
  LET f == FindParser(r, type, porder)
  IN  IF f.err # Nil
        THEN [spec |-> Nil, err |-> Errorf("failed to find parser", f.err),
              calls |-> <<"FindParser">>]
        ELSE LET pr == ParserParse(f.parser, type, tree, e)
             IN  IF pr.err # Nil
                   THEN [spec |-> Nil, err |-> Errorf("failed to parse CLI", pr.err),
                         calls |-> <<"FindParser", "Parse">>]
                   ELSE LET c == Convert(pr.parsed, opts, order1, order2)
                        IN  IF c.err # Nil
                              THEN [spec |-> Nil,
                                    err |-> Errorf("failed to convert to OpenCLI spec", c.err),
                                    calls |-> <<"FindParser", "Parse", "Convert">>]
                              ELSE [spec |-> c.spec, err |-> Nil,
                                    calls |-> <<"FindParser", "Parse", "Convert">>]

\* the ParsedCLI that reaches the converter in GoSpec.Convert, nil if none does
ParsedFor(r, type, tree, e, porder) ==
  LET f == FindParser(r, type, porder)
  IN  IF f.err # Nil THEN Nil ELSE ParserParse(f.parser, type, tree, e).parsed

\* the registry of the GoSpec that New() returns
DefaultRegistry == Register(NewParserRegistry, CobraParser)

(***************************************************************************)
(* The pipeline: the caller may probe the source with Supports; the source *)
(* is parsed, and the ParsedCLI (nil after a failed Parse) is converted.   *)
(***************************************************************************)
Init ==
  /\ \/ /\ sourceType = "*cobra.Command"
        /\ source \in Sources
        /\ entry \in Entries(source)
     \/ /\ sourceType \in SourceTypes \ {"*cobra.Command"}
        /\ source = <<>>
        /\ entry = 0
  /\ probe = <<>>
  /\ parsed = Nil
  /\ options = Nil
  /\ openCLI = Nil
  /\ err = Nil
  /\ pc = "source"
  /\ registry = DefaultRegistry
  /\ registered = <<CobraParser>>
  /\ result = [op |-> "none"]
  /\ inv = <<>>

\* the registry, the calls on it and the concurrent invocations
registryVars == <<registry, registered, result, inv>>

\* ok := parser.Supports(source)
DoSupports ==
  /\ pc = "source"
  /\ probe' = <<Supports(sourceType)>>
  /\ pc' = "probed"
  /\ UNCHANGED <<sourceType, source, entry, parsed, options, openCLI, err>>
  /\ UNCHANGED registryVars

\* parsed, err := parser.Parse(source)
DoParse ==
  /\ pc = "source"
  /\ \E r \in {Parse(sourceType, source, entry)} :
       /\ parsed' = r.parsed
       /\ err' = r.err
       /\ pc' = IF r.err = Nil THEN "parsed" ELSE "parse_failed"
  /\ UNCHANGED <<sourceType, source, entry, probe, options, openCLI>>
  /\ UNCHANGED registryVars

\* the call converter.Convert(parsed, opts) with the commands loop visiting the
\* paths in order1
ConvertWith(opts, order1) ==
  \E order2 \in ComponentLoopOrders(parsed, opts) :
     \E r \in {Convert(parsed, opts, order1, order2)} :
        /\ parsed' = r.parsed
        /\ options' = r.options
        /\ openCLI' = r.spec
        /\ err' = r.err
        /\ pc' = IF r.panic THEN "panicked"
                 ELSE IF r.err = Nil THEN "converted" ELSE "convert_failed"

\* spec, err := converter.Convert(parsed, options)
DoConvert ==
  /\ pc \in {"parsed", "parse_failed"}
  /\ \E order1 \in CommandLoopOrders(parsed), opts \in OptionInputs :
       ConvertWith(opts, order1)
  /\ UNCHANGED <<sourceType, source, entry, probe>>
  /\ UNCHANGED registryVars

Next == DoSupports \/ DoParse \/ DoConvert

Spec == Init /\ [][Next]_vars

(***************************************************************************)
(* The registry: parsers are registered, and the registry and GoSpec are   *)
(* called; every call is one step.                                         *)
(***************************************************************************)
\* the sources handed to FindParser and GoSpec.Convert
RegistrySources ==
  { [type |-> "*cobra.Command", tree |-> TestTree, e |-> 1],
    [type |-> "string", tree |-> <<>>, e |-> 0],
    [type |-> "nil", tree |-> <<>>, e |-> 0] }

\* the options handed to GoSpec.Convert
RegistryOptions ==
  {Nil, [DefaultConvertOptions EXCEPT !.ExtractComponents = FALSE]}

\* the names Get is asked for
ParserNames == {"cobra", "custom", "other", "missing"}

InitRegistry ==
  /\ sourceType = "nil" /\ source = <<>> /\ entry = 0
  /\ probe = <<>>
  /\ parsed = Nil /\ options = Nil /\ openCLI = Nil /\ err = Nil
  /\ pc = "idle"
  /\ registry = NewParserRegistry
  /\ registered = <<>>
  /\ result = [op |-> "none"]
  /\ inv = <<>>

\* the variables no call on the registry touches
pipelineVars == <<probe, parsed, openCLI, err, inv>>

\* registry.Register(parser), also reached through GoSpec.RegisterParser
DoRegister ==
  /\ pc = "idle"
  /\ Len(registered) < MaxRegistrations
  /\ \E parser \in ParserPool :
       /\ registry' = Register(registry, parser)
       /\ registered' = Append(registered, parser)
  /\ UNCHANGED <<sourceType, source, entry, options, pc, result>>
  /\ UNCHANGED pipelineVars

\* parser, ok := registry.Get(name)
DoGet ==
  /\ pc = "idle"
  /\ \E name \in ParserNames :
       LET r == Get(registry, name)
       IN  result' = [op |-> "Get", name |-> name, parser |-> r.parser, ok |-> r.ok]
  /\ pc' = "returned"
  /\ UNCHANGED <<sourceType, source, entry, options, registry, registered>>
  /\ UNCHANGED pipelineVars

\* names := registry.List()
DoList ==
  /\ pc = "idle"
  /\ \E order \in RangeOrders(registry) :
       result' = [op |-> "List", names |-> List(registry, order)]
  /\ pc' = "returned"
  /\ UNCHANGED <<sourceType, source, entry, options, registry, registered>>
  /\ UNCHANGED pipelineVars

\* parser, err := registry.FindParser(source)
DoFindParser ==
  /\ pc = "idle"
  /\ \E src \in RegistrySources, order \in RangeOrders(registry) :
       LET r == FindParser(registry, src.type, order)
       IN  /\ sourceType' = src.type /\ source' = src.tree /\ entry' = src.e
           /\ result' = [op |-> "FindParser", parser |-> r.parser, err |-> r.err]
  /\ pc' = "returned"
  /\ UNCHANGED <<options, registry, registered>>
  /\ UNCHANGED pipelineVars

\* spec, err := gospec.Convert(source, options)
DoGoSpecConvert ==
  /\ pc = "idle"
  /\ \E src \in RegistrySources, opts \in RegistryOptions,
        porder \in RangeOrders(registry) :
       LET p == ParsedFor(registry, src.type, src.tree, src.e, porder)
       IN  \E order1 \in CommandLoopOrders(p), order2 \in ComponentLoopOrders(p, opts) :
              LET r == GoSpecConvert(registry, src.type, src.tree, src.e, opts,
                                     porder, order1, order2)
              IN  /\ sourceType' = src.type /\ source' = src.tree /\ entry' = src.e
                  /\ options' = opts
                  /\ result' = [op |-> "Convert", porder |-> porder,
                                spec |-> r.spec, err |-> r.err, calls |-> r.calls]
  /\ pc' = "returned"
  /\ UNCHANGED <<registry, registered>>
  /\ UNCHANGED pipelineVars

NextRegistry == DoRegister \/ DoGet \/ DoList \/ DoFindParser \/ DoGoSpecConvert

SpecRegistry == InitRegistry /\ [][NextRegistry]_vars

(***************************************************************************)
(* Concurrency: two goroutines call GoSpec.Convert on one GoSpec, each on  *)
(* its own source and options; no Register call runs meanwhile.  A step is *)
(* one stage of one invocation.                                            *)
(***************************************************************************)
Invocations == {1, 2}

\* a root and a child whose local flags share the name f
TwoCommandTree ==
  << [PlainCommand(0, <<S_ab>>) EXCEPT
        !.Flags = <<Flag("f", "", T_string, FALSE, "", FALSE)>>],
     [PlainCommand(1, <<S_C_d>>) EXCEPT
        !.Flags = <<Flag("f", "", T_bool, TRUE, "", FALSE),
                    Flag("g", "", T_string, FALSE, "", FALSE)>>] >>

ConcurrentSources ==
  RegistrySources \cup {[type |-> "*cobra.Command", tree |-> TwoCommandTree, e |-> 1]}

\* the Register calls that built the registry before the invocations start
ConcurrentRegistrations ==
  { <<CobraParser>>,
    <<CobraParser, FailingParser>>,
    <<CobraParser, FixedParser, NilParser>> }

RECURSIVE RegisterAll(_, _)
RegisterAll(r, parsers) ==
  IF parsers = <<>> THEN r ELSE RegisterAll(Register(r, Head(parsers)), Tail(parsers))

\* the arguments and the local variables p, parsed, openCLI, err of an
\* invocation that has not started
NewInvocation(src, opts) ==
  [pc |-> "start", src |-> src, opts |-> opts,
   parser |-> Nil, parsed |-> Nil, spec |-> Nil, err |-> Nil]

InitConcurrent ==
  /\ sourceType = "nil" /\ source = <<>> /\ entry = 0
  /\ probe = <<>>
  /\ parsed = Nil /\ options = Nil /\ openCLI = Nil /\ err = Nil
  /\ pc = "concurrent"
  /\ registered \in ConcurrentRegistrations
  /\ registry = RegisterAll(NewParserRegistry, registered)
  /\ result = [op |-> "none"]
  /\ inv \in [Invocations ->
               {NewInvocation(src, opts) : src \in ConcurrentSources, opts \in RegistryOptions}]

\* the variables the invocations do not touch
sharedVars ==
  <<sourceType, source, entry, probe, parsed, options, openCLI, err, pc,
    registry, registered, result>>

\* the local variable parsed of every invocation read from invocation 1, as if
\* it were one field shared by all
ParsedOfShared(invs, i) == invs[1].parsed

\* the local variable parsed of invocation i
ParsedOf(invs, i) == invs[i].parsed

\* p, err := g.registry.FindParser(source), and the return on error
InvFindParser(i) ==
  /\ inv[i].pc = "start"
  /\ \E porder \in RangeOrders(registry) :
       LET f == FindParser(registry, inv[i].src.type, porder)
       IN  inv' = IF f.err # Nil
                    THEN [inv EXCEPT ![i].pc = "done",
                                     ![i].err = Errorf("failed to find parser", f.err)]
                    ELSE [inv EXCEPT ![i].pc = "found", ![i].parser = f.parser]
  /\ UNCHANGED sharedVars

\* parsed, err := p.Parse(source), and the return on error
InvParse(i) ==
  /\ inv[i].pc = "found"
  /\ LET pr == ParserParse(inv[i].parser, inv[i].src.type, inv[i].src.tree, inv[i].src.e)
     IN  inv' = IF pr.err # Nil
                  THEN [inv EXCEPT ![i].pc = "done",
                                   ![i].err = Errorf("failed to parse CLI", pr.err)]
                  ELSE [inv EXCEPT ![i].pc = "parsed", ![i].parsed = pr.parsed]
  /\ UNCHANGED sharedVars

\* openCLI, err := g.converter.Convert(parsed, options), and the return
InvConvert(i) ==
  /\ inv[i].pc = "parsed"
  /\ LET p == ParsedOf(inv, i)
     IN  \E order1 \in CommandLoopOrders(p), order2 \in ComponentLoopOrders(p, inv[i].opts) :
            LET c == Convert(p, inv[i].opts, order1, order2)
            IN  inv' = IF c.err # Nil
                         THEN [inv EXCEPT ![i].pc = "done",
                                 ![i].err = Errorf("failed to convert to OpenCLI spec", c.err)]
                         ELSE [inv EXCEPT ![i].pc = "done", ![i].spec = c.spec]
  /\ UNCHANGED sharedVars

NextConcurrent ==
  \E i \in Invocations : InvFindParser(i) \/ InvParse(i) \/ InvConvert(i)

SpecConcurrent == InitConcurrent /\ [][NextConcurrent]_vars

(***************************************************************************)
(* The converter called directly: a caller holds a ParsedCLI, parsed from  *)
(* a command tree or built by hand, and an options object, calls Convert,  *)
(* and afterwards writes to the ParsedCLI it still holds.                  *)
(***************************************************************************)
\* what a command of the trees below is
DirectChoices == {"plain", "hidden", "aliased"}

DirectCommand(parent, use, choice) ==
  CASE choice = "hidden"  -> [PlainCommand(parent, use) EXCEPT !.Hidden = TRUE]
    [] choice = "aliased" -> [PlainCommand(parent, use) EXCEPT
                                !.Aliases = <<"x", "y">>, !.ValidArgs = <<S_json>>]
    [] OTHER              -> PlainCommand(parent, use)

\* trees of distinctly named commands, some hidden, some with aliases and a
\* valid argument
AliasTrees ==
  UNION {
    {[i \in 1..n |-> DirectCommand(pv[i], <<(<<LowerLetters[i]>>)>>, ch[i])] :
       pv \in ParentVectors(n), ch \in [1..n -> DirectChoices]}
    : n \in 1..MaxNodes}

DirectSources == AliasTrees \cup MetadataTrees

\* an Info a caller supplies as ConvertOptions.CustomInfo
CustomInfoInput ==
  [Title |-> S_testapp, Description |-> "custom", Version |-> "9.9.9",
   Contact |-> [Name |-> "Docs Team", URL |-> ""], License |-> Nil]

\* the options objects the caller holds
DirectOptions ==
  {Nil, DefaultConvertOptions,
   [DefaultConvertOptions EXCEPT !.IncludeHidden = TRUE],
   [DefaultConvertOptions EXCEPT !.ExtractComponents = FALSE],
   [DefaultConvertOptions EXCEPT !.CustomInfo = CustomInfoInput]}

\* the arities <<MinArgs, MaxArgs>> of the argument of a ParsedCLI built by hand
BuiltArities == {<<1, 2>>, <<0, -1>>, <<0, 0>>}

\* the ParsedCLI of one command "ab" with the alias x, as Parse builds it
BuiltBase ==
  Parse("*cobra.Command", <<[PlainCommand(0, <<S_ab>>) EXCEPT !.Aliases = <<"x">>]>>, 1).parsed

\* ParsedCLI values built without CobraParser (by a caller or another Parser):
\* an empty one without Metadata, and one command with one argument of some
\* arity, with and without Metadata
BuiltParsed ==
  { [RootCommand |-> 0, Commands |-> EmptyMap, infos |-> EmptyMap, Metadata |-> Nil] }
  \cup
  { [BuiltBase EXCEPT
       !.infos[1].Args = << [Addr |-> <<1, 1>>, Name |-> S_file, Position |-> 1,
                             Required |-> arity[1] > 0, Type |-> T_string,
                             MinArgs |-> arity[1], MaxArgs |-> arity[2],
                             ValidValues |-> <<>>] >>,
       !.Metadata = md] :
      arity \in BuiltArities, md \in {BuiltBase.Metadata, Nil} }

InitDirect ==
  /\ \/ /\ sourceType = "*cobra.Command"
        /\ source \in DirectSources
        /\ entry \in Entries(source)
     \/ /\ sourceType \in SourceTypes \ {"*cobra.Command"}
        /\ source = <<>>
        /\ entry = 0
  /\ options \in DirectOptions
  /\ probe = <<>>
  /\ parsed = Nil
  /\ openCLI = Nil
  /\ err = Nil
  /\ pc = "source"
  /\ registry = DefaultRegistry
  /\ registered = <<CobraParser>>
  /\ result = [op |-> "none"]
  /\ inv = <<>>

\* parsed := &parser.ParsedCLI{...}, by a caller that has no command tree
DoBuild ==
  /\ pc = "source"
  /\ sourceType = "nil"
  /\ parsed' \in BuiltParsed
  /\ pc' = "parsed"
  /\ UNCHANGED <<sourceType, source, entry, probe, options, openCLI, err>>
  /\ UNCHANGED registryVars

\* spec, err := converter.Convert(parsed, options) on the objects the caller holds
DoConvertHeld ==
  /\ pc \in {"parsed", "parse_failed"}
  /\ \E order1 \in CommandLoopOrders(parsed) : ConvertWith(options, order1)
  /\ UNCHANGED <<sourceType, source, entry, probe>>
  /\ UNCHANGED registryVars

\* the values a caller writes
WrittenMaxArgs == {0, 5}

\* the ParsedCLI after one write of the caller through it: an element of a
\* command's Aliases, the MaxArgs of an argument, the Hidden field of a
\* command, the Version of the metadata
Writes(p) ==
  UNION { {[p EXCEPT !.infos[a].Aliases[k] = "changed"] :
             k \in DOMAIN p.infos[a].Aliases}
          \cup
          {[p EXCEPT !.infos[a].Args[k].MaxArgs = v] :
             k \in DOMAIN p.infos[a].Args, v \in WrittenMaxArgs}
          \cup
          {[p EXCEPT !.infos[a].Hidden = ~@]}
          : a \in DOMAIN p.infos }
  \cup
  (IF p.Metadata = Nil THEN {} ELSE {[p EXCEPT !.Metadata.Version = "changed"]})

\* after Convert has returned a specification, the caller writes to the ParsedCLI
DoWriteParsed ==
  /\ pc = "converted"
  /\ parsed' \in Writes(parsed)
  /\ pc' = "written"
  /\ UNCHANGED <<sourceType, source, entry, probe, options, openCLI, err>>
  /\ UNCHANGED registryVars

NextDirect == DoParse \/ DoBuild \/ DoConvertHeld \/ DoWriteParsed

SpecDirect == InitDirect /\ [][NextDirect]_vars

(***************************************************************************)
(* Properties.                                                             *)
(***************************************************************************)
WasParsed == pc \in {"parsed", "converted"}

\* command i of the tree is command e or one of its descendants
RECURSIVE IsUnder(_, _, _)
IsUnder(tree, i, e) ==
  \/ i = e
  \/ tree[i].parent # 0 /\ IsUnder(tree, tree[i].parent, e)

\* the commands of the tree that Parse was to visit
CommandsUnderEntry == {i \in DOMAIN source : IsUnder(source, i, entry)}

WasConverted == pc = "converted"

\* the options in force during the conversion
Opts == EffectiveOptions(options)

\* the identities of the CommandInfo objects Parse allocated
InfoIds == DOMAIN parsed.infos

\* the command passes the visibility policy of the conversion
PassesPolicy(cmdInfo) ==
  /\ ~cmdInfo.Hidden \/ Opts.IncludeHidden
  /\ cmdInfo.Deprecated = "" \/ Opts.IncludeDeprecated

\* the paths of the flat map whose commands the conversion emits
EmittedPaths == {path \in DOMAIN parsed.Commands : PassesPolicy(InfoAt(parsed, path))}

C2_OneEntryPerNode ==
  WasParsed =>
    /\ Cardinality(DOMAIN parsed.Commands) = Cardinality(CommandsUnderEntry)
    /\ \A i \in CommandsUnderEntry :
         /\ \E path \in DOMAIN parsed.Commands : parsed.Commands[path] = i
         /\ parsed.infos[i].Hidden = source[i].Hidden

\* the number of entries of flag list `flags` that carry the name
CountName(flags, name) == Cardinality({i \in DOMAIN flags : flags[i].Name = name})

DeclaredFlagNames(cmd) ==
  {cmd.Flags[i].Name : i \in DOMAIN cmd.Flags}
    \cup {cmd.PersistentFlags[i].Name : i \in DOMAIN cmd.PersistentFlags}

\* C3: every flag name declared on a command occurs exactly once across
\* CommandInfo.Flags and CommandInfo.PersistentFlags, and a flag that is in both
\* the local and the persistent flag set is recorded under PersistentFlags only
\* (changed or not), so that, unless the hidden-flag filter drops it, the
\* converted command lists it exactly once, with scope "inherited".
C3_FlagPartition ==
  /\ WasParsed =>
       \A i \in CommandsUnderEntry : \A name \in DeclaredFlagNames(source[i]) :
          LET info == parsed.infos[i]
          IN  /\ CountName(info.Flags, name) + CountName(info.PersistentFlags, name) = 1
              /\ (Lookup(source[i].Flags, name) /\ Lookup(source[i].PersistentFlags, name))
                   => CountName(info.Flags, name) = 0
  /\ WasConverted =>
       \A path \in EmittedPaths :
          LET info  == InfoAt(parsed, path)
              cmd   == source[parsed.Commands[path]]
              key   == CommandKey(path, info)
          IN  \A i \in DOMAIN cmd.Flags :
                 (/\ Lookup(cmd.PersistentFlags, cmd.Flags[i].Name)
                  /\ Opts.IncludeHidden
                  /\ key \in DOMAIN openCLI.Commands)
                 => LET params == openCLI.Commands[key].Parameters
                    IN  /\ CountName(params, cmd.Flags[i].Name) = 1
                        /\ \A k \in DOMAIN params :
                             params[k].Name = cmd.Flags[i].Name
                               => params[k].Scope = "inherited"

\* C4: a command of the flat map is in the output exactly when it is not hidden
\* or includeHidden holds, and not deprecated or includeDeprecated holds; with
\* includeHidden = false no output command is hidden.
C4_CommandFilter ==
  WasConverted =>
    /\ \A path \in DOMAIN parsed.Commands :
         LET info == InfoAt(parsed, path)
         IN  (CommandKey(path, info) \in DOMAIN openCLI.Commands)
               <=> ((~info.Hidden \/ Opts.IncludeHidden)
                    /\ (info.Deprecated = "" \/ Opts.IncludeDeprecated))
    /\ ~Opts.IncludeHidden =>
         \A key \in DOMAIN openCLI.Commands : ~openCLI.Commands[key].Hidden
    /\ ~Opts.IncludeDeprecated =>
         \A key \in DOMAIN openCLI.Commands : ~openCLI.Commands[key].Deprecated

\* C4 witness: with includeHidden = false and includeDeprecated = true a nested
\* command that is hidden but not deprecated is left out and a nested command
\* that is deprecated but not hidden is emitted.
C4_Witness ==
  /\ WasConverted
  /\ ~Opts.IncludeHidden /\ Opts.IncludeDeprecated
  /\ \E a, b \in DOMAIN parsed.Commands :
       LET ia == InfoAt(parsed, a)
           ib == InfoAt(parsed, b)
       IN  /\ ia.Parent # 0 /\ ia.Parent # parsed.RootCommand
           /\ ia.Hidden /\ ia.Deprecated = ""
           /\ CommandKey(a, ia) \notin DOMAIN openCLI.Commands
           /\ ib.Parent # 0
           /\ ~ib.Hidden /\ ib.Deprecated # ""
           /\ CommandKey(b, ib) \in DOMAIN openCLI.Commands

\* C5: in the output of Convert every non-root command is stored under "/"
\* followed by its path and the root command under its bare name.
C5_OutputKeys ==
  WasConverted =>
    /\ \A path \in EmittedPaths :
         LET info == InfoAt(parsed, path)
             key  == IF parsed.Commands[path] = parsed.RootCommand
                       THEN info.Name ELSE Slash \o info.Path
         IN  /\ key \in DOMAIN openCLI.Commands
             /\ openCLI.Commands[key] = convertCommand(info, Opts)
    /\ \A key \in DOMAIN openCLI.Commands :
         \E path \in EmittedPaths :
            key = IF parsed.Commands[path] = parsed.RootCommand
                    THEN InfoAt(parsed, path).Name
                    ELSE Slash \o InfoAt(parsed, path).Path

\* the name, origin and scope of every parameter of a list, in order
Shape(params) ==
  [i \in DOMAIN params |->
     [Name |-> params[i].Name, In |-> params[i].In, Scope |-> params[i].Scope]]

\* the flags of a list that are not (hidden while includeHidden is false), as
\* parameters of the given scope
RECURSIVE ShownFlags(_, _)
ShownFlags(flags, scope) ==
  IF flags = <<>> THEN <<>>
  ELSE LET f == Head(flags)
       IN  (IF f.Hidden /\ ~Opts.IncludeHidden THEN <<>>
            ELSE << [Name |-> f.Name, In |-> "flag", Scope |-> scope] >>)
           \o ShownFlags(Tail(flags), scope)

DefaultOptionsUsed == options = Nil \/ options = DefaultConvertOptions

\* C7: for the tree testapp -> user -> create of TestCobraParser_Parse, Parse
\* yields a root with 2 persistent flags and 1 subcommand and at least 3 map
\* entries; Convert with the default options yields exactly 3 commands, and the
\* root's parameters hold verbose and config with scope "inherited".
C7_TestTreeShape ==
  /\ (WasParsed /\ source = TestTree) =>
       LET root == parsed.infos[parsed.RootCommand]
       IN  /\ Len(root.PersistentFlags) = 2
           /\ Len(root.Subcommands) = 1
           /\ Cardinality(DOMAIN parsed.Commands) >= 3
  /\ (WasConverted /\ source = TestTree /\ DefaultOptionsUsed) =>
       /\ Cardinality(DOMAIN openCLI.Commands) = 3
       /\ S_testapp \in DOMAIN openCLI.Commands
       /\ \A name \in {"verbose", "config"} :
            \E k \in DOMAIN openCLI.Commands[S_testapp].Parameters :
               LET param == openCLI.Commands[S_testapp].Parameters[k]
               IN  param.Name = name /\ param.In = "flag" /\ param.Scope = "inherited"

\* C7 witness: the test tree was converted with nil options.
C7_Witness ==
  /\ WasConverted /\ source = TestTree /\ options = Nil
  /\ Cardinality(DOMAIN openCLI.Commands) = 3

S_CreatePathKey == Slash \o S_testapp \o Slash \o S_user \o Slash \o S_create

S_userCreateCommand ==
  S_user \o <<"C","r","e","a","t","e">> \o S_Command

S_testappUserCreateCommand ==
  S_testapp \o <<"U","s","e","r">> \o <<"C","r","e","a","t","e">> \o S_Command

\* C8 (as stated): for the test tree converted with the default options the
\* operation identifier of "create" is "userCreateCommand".
C8_CreateIdIsUserCreate ==
  (WasConverted /\ source = TestTree /\ DefaultOptionsUsed) =>
    /\ S_CreatePathKey \in DOMAIN openCLI.Commands
    /\ openCLI.Commands[S_CreatePathKey].OperationID = S_userCreateCommand

\* C8 (amended): for the test tree converted with the default options the
\* operation identifier of "create" is "testappUserCreateCommand": the root's
\* name is the first segment.
C8_CreateIdHasRootSegment ==
  (WasConverted /\ source = TestTree /\ DefaultOptionsUsed) =>
    /\ S_CreatePathKey \in DOMAIN openCLI.Commands
    /\ openCLI.Commands[S_CreatePathKey].OperationID = S_testappUserCreateCommand

\* C8 witness: the test tree was converted with the default options and the
\* "create" command was emitted with an identifier.
C8_Witness ==
  /\ WasConverted /\ source = TestTree /\ options = DefaultConvertOptions
  /\ S_CreatePathKey \in DOMAIN openCLI.Commands
  /\ openCLI.Commands[S_CreatePathKey].OperationID # <<>>

\* the words of a list title-cased (first letter of each word upper-cased) and
\* concatenated
RECURSIVE TitleCased(_)
TitleCased(segments) ==
  IF segments = <<>> THEN <<>>
  ELSE [i \in DOMAIN Head(segments) |->
          IF i = 1 \/ isSeparator(Head(segments)[i - 1])
            THEN ToUpperChar(Head(segments)[i]) ELSE Head(segments)[i]]
       \o TitleCased(Tail(segments))

C10_RootIdIsConstant ==
  (WasConverted /\ Opts.GenerateOperationIDs) =>
    \A path \in EmittedPaths :
       LET info == InfoAt(parsed, path)
       IN  (parsed.Commands[path] = parsed.RootCommand /\ info.Name \in DOMAIN openCLI.Commands)
             => openCLI.Commands[info.Name].OperationID = S_rootCommand

\* C10 (amended): with generateIdentifiers the root command gets its own name
\* followed by "Command", so the identifier varies with the root's name.
C10_RootIdIsNameCommand ==
  (WasConverted /\ Opts.GenerateOperationIDs) =>
    \A path \in EmittedPaths :
       LET info == InfoAt(parsed, path)
       IN  parsed.Commands[path] = parsed.RootCommand
             => /\ info.Name \in DOMAIN openCLI.Commands
                /\ openCLI.Commands[info.Name].OperationID = info.Name \o S_Command

\* C10 witness: a root named "C-d" was emitted with the identifier "C-dCommand".
C10_Witness ==
  /\ WasConverted /\ Opts.GenerateOperationIDs
  /\ S_C_d \in DOMAIN parsed.Commands
  /\ parsed.Commands[S_C_d] = parsed.RootCommand
  /\ S_C_d \in DOMAIN openCLI.Commands
  /\ openCLI.Commands[S_C_d].OperationID = S_C_d \o S_Command

\* the schema type the fixed table gives a type tag spelled in lower case
SchemaTypeOfLowerCaseTag(t) ==
  IF t \in {T_bool, T_boolean} THEN "boolean"
  ELSE IF t \in {T_int, T_int8, T_int16, T_int32, T_int64,
                 T_uint, T_uint8, T_uint16, T_uint32, T_uint64} THEN "integer"
  ELSE IF t \in {T_float, T_float32, T_float64} THEN "number"
  ELSE IF t \in {T_stringslice, T_slice_of_string} THEN "array"
  ELSE "string"

\* the type tags of the flags and arguments of a command, in parameter order
\* (no flag hidden)
TypeTagsOf(info) ==
  [i \in DOMAIN info.Flags |-> info.Flags[i].Type]
    \o [i \in DOMAIN info.PersistentFlags |-> info.PersistentFlags[i].Type]
    \o [i \in DOMAIN info.Args |-> info.Args[i].Type]

\* C19: the schema type of every converted flag and argument is the fixed
\* function of its type tag, letter case ignored: bool/boolean -> boolean, the
\* int and uint widths -> integer, float/float32/float64 -> number, duration ->
\* string, stringSlice / []string -> array, anything else -> string.
C19_SchemaTypeTable ==
  (WasConverted /\ Opts.IncludeHidden) =>
    \A path \in EmittedPaths :
       LET info   == InfoAt(parsed, path)
           key    == CommandKey(path, info)
           tags   == TypeTagsOf(info)
       IN  key \in DOMAIN openCLI.Commands =>
             LET params == openCLI.Commands[key].Parameters
             IN  /\ Len(params) = Len(tags)
                 /\ \A i \in DOMAIN params :
                      params[i].SchemaType = SchemaTypeOfLowerCaseTag(ToLower(tags[i]))

\* C19 witness: a flag of type tag "stringSlice" was converted to schema type
\* "array" and an argument to "string".
C19_Witness ==
  /\ WasConverted
  /\ \E key \in DOMAIN openCLI.Commands :
       LET params == openCLI.Commands[key].Parameters
       IN  /\ Len(params) = 2
           /\ params[1].In = "flag" /\ params[1].SchemaType = "array"
           /\ params[2].In = "argument" /\ params[2].SchemaType = "string"
  /\ \E i \in DOMAIN source : \E k \in DOMAIN source[i].Flags :
       source[i].Flags[k].Type = T_stringSlice

\* C11: with GenerateOperationIDs set, any two commands of one ParsedCLI with
\* distinct paths receive distinct operation identifiers: the entries the
\* specification holds under distinct keys carry distinct identifiers.
C11_OperationIdsUnique ==
  (WasConverted /\ Opts.GenerateOperationIDs) =>
    \A k1, k2 \in DOMAIN openCLI.Commands :
       k1 # k2 => openCLI.Commands[k1].OperationID # openCLI.Commands[k2].OperationID

\* the commands of the ParsedCLI that have a local flag named n
CommandsWithLocalFlag(n) ==
  {path \in DOMAIN parsed.Commands :
     \E i \in DOMAIN InfoAt(parsed, path).Flags : InfoAt(parsed, path).Flags[i].Name = n}

\* the names of the local and persistent flags of the commands of the ParsedCLI
ParsedFlagNames ==
  UNION {{InfoAt(parsed, path).Flags[i].Name : i \in DOMAIN InfoAt(parsed, path).Flags}
           \cup {InfoAt(parsed, path).PersistentFlags[i].Name :
                   i \in DOMAIN InfoAt(parsed, path).PersistentFlags} :
         path \in DOMAIN parsed.Commands}

\* C12: with ExtractComponents set, a flag name is a key of the components
\* parameter table if it is a local flag of two or more commands of the
\* ParsedCLI, and is absent from the table if it is a local flag of exactly
\* one command; the table has no other keys.
C12_SharedFlagsLifted ==
  (WasConverted /\ Opts.ExtractComponents) =>
    /\ \A n \in ParsedFlagNames :
         /\ Cardinality(CommandsWithLocalFlag(n)) >= 2
              => n \in DOMAIN openCLI.Components.Parameters
         /\ Cardinality(CommandsWithLocalFlag(n)) = 1
              => n \notin DOMAIN openCLI.Components.Parameters
    /\ DOMAIN openCLI.Components.Parameters \subseteq ParsedFlagNames

\* C12 witness: a conversion in which one flag name is local to two commands
\* and lifted, and another is local to one command and not lifted.
C12_Witness ==
  /\ WasConverted /\ Opts.ExtractComponents
  /\ \E n, m \in ParsedFlagNames :
       /\ Cardinality(CommandsWithLocalFlag(n)) >= 2
       /\ n \in DOMAIN openCLI.Components.Parameters
       /\ Cardinality(CommandsWithLocalFlag(m)) = 1
       /\ m \notin DOMAIN openCLI.Components.Parameters

\* the root node of the command tree: the command without a parent
TreeRoot == source[CHOOSE i \in DOMAIN source : source[i].parent = 0]

\* the value the root's annotations give a key, empty if the key is absent
RootAnnotation(key) ==
  IF \E k \in DOMAIN TreeRoot.Annotations : k = key
    THEN TreeRoot.Annotations[key] ELSE ""

\* C18: Parse sets Metadata from the root node of the command tree only: Name,
\* Version and Description are the root's name, version and long description;
\* Author, License, Homepage and Repository are the root's annotations
\* "author", "license", "homepage", "repository" when present and empty
\* otherwise.  No other command of the tree has a say, whichever command of
\* the tree was handed to Parse.
C18_MetadataFromRoot ==
  WasParsed =>
    /\ parsed.Metadata.Name = (IF TreeRoot.Use = <<>> THEN <<>> ELSE Head(TreeRoot.Use))
    /\ parsed.Metadata.Version = TreeRoot.Version
    /\ parsed.Metadata.Description = TreeRoot.Long
    /\ parsed.Metadata.Author = RootAnnotation("author")
    /\ parsed.Metadata.License = RootAnnotation("license")
    /\ parsed.Metadata.Homepage = RootAnnotation("homepage")
    /\ parsed.Metadata.Repository = RootAnnotation("repository")

\* C18 witness: Parse was handed a command below the root whose version, long
\* description and annotations differ from the root's; the root has the
\* annotations "author" and "license" only.
C18_Witness ==
  /\ WasParsed
  /\ source[entry].parent # 0
  /\ source[entry].Version = "2.0.0" /\ TreeRoot.Version = "1.0.0"
  /\ parsed.Metadata.Version = "1.0.0"
  /\ parsed.Metadata.Description = "A test application"
  /\ parsed.Metadata.Author = "Test Author"
  /\ parsed.Metadata.License = "MIT"
  /\ parsed.Metadata.Homepage = "" /\ parsed.Metadata.Repository = ""

\* C13: Convert called with a nil ParsedCLI returns an error and a nil
\* specification, whatever the options, nil included.
C13_NilParsedRejected ==
  (pc \in {"converted", "convert_failed"} /\ parsed = Nil) =>
    /\ pc = "convert_failed"
    /\ openCLI = Nil
    /\ err # Nil
    /\ options \in OptionInputs

\* C13 witness: Convert was called with a nil ParsedCLI and nil options, and
\* returned the error "parsed CLI is nil".
C13_Witness ==
  /\ pc = "convert_failed"
  /\ parsed = Nil /\ options = Nil
  /\ openCLI = Nil
  /\ err # Nil /\ err.Message = "parsed CLI is nil"

\* errors.Is(e, target): target is e or is in the chain of causes of e
RECURSIVE ErrorsIs(_, _)
ErrorsIs(e, target) ==
  /\ e # Nil
  /\ \/ e = target
     \/ ErrorsIs(e.Cause, target)

\* C14: Parse fails, with ErrInvalidSource in the cause chain of its error and
\* no ParsedCLI, exactly when Supports(source) is false; otherwise it returns a
\* ParsedCLI and no error.  Supports is true exactly for a *cobra.Command
\* (false for a string and for nil), and the probe leaves the source as it was.
C14_ParseRejectsUnsupported ==
  [][ /\ (pc = "source" /\ pc' \in {"parsed", "parse_failed"}) =>
           /\ (pc' = "parse_failed") <=> ~Supports(sourceType)
           /\ pc' = "parse_failed" =>
                parsed' = Nil /\ ErrorsIs(err', ErrInvalidSource)
           /\ pc' = "parsed" => parsed' # Nil /\ err' = Nil
      /\ (pc = "source" /\ pc' = "probed") =>
           /\ probe' = <<(sourceType = "*cobra.Command")>>
           /\ sourceType = "string" => probe' = <<FALSE>>
           /\ sourceType = "nil" => probe' = <<FALSE>>
           /\ <<sourceType, source, entry>>' = <<sourceType, source, entry>>
           /\ parsed' = parsed
    ]_vars

\* C14 witness: Parse was handed a string and failed with an error that wraps
\* ErrInvalidSource, returning no ParsedCLI.
C14_Witness ==
  /\ pc = "parse_failed"
  /\ sourceType = "string"
  /\ parsed = Nil
  /\ err.Message = "source is not a *cobra.Command"
  /\ err.Cause = ErrInvalidSource

\* the positions in `registered` of the Register calls with a parser named n
RegistrationsOf(n) == {i \in DOMAIN registered : registered[i].Name = n}

\* the parser most recently registered under the name n
LastRegistered(n) ==
  registered[CHOOSE i \in RegistrationsOf(n) : \A j \in RegistrationsOf(n) : j <= i]

RegisteredNames == {registered[i].Name : i \in DOMAIN registered}

\* what Get(n) is to return after the Register calls made so far
ExpectedGet(n) ==
  IF RegistrationsOf(n) = {} THEN [parser |-> Nil, ok |-> FALSE]
  ELSE [parser |-> LastRegistered(n), ok |-> TRUE]

\* the list holds every registered name exactly once and nothing else
ListsRegisteredNames(names) ==
  /\ Len(names) = Cardinality(RegisteredNames)
  /\ \A n \in RegisteredNames : Cardinality({i \in DOMAIN names : names[i] = n}) = 1

\* C15: after any sequence of Register calls, Get(n) returns the parser most
\* recently registered under n with ok = true, and (nil, false) if none was
\* registered under n; List returns every registered name exactly once, so its
\* length is the number of distinct names registered.
C15_RegistryTracksRegistrations ==
  /\ \A n \in ParserNames : Get(registry, n) = ExpectedGet(n)
  /\ \A order \in RangeOrders(registry) : ListsRegisteredNames(List(registry, order))
  /\ result.op = "Get" =>
       [parser |-> result.parser, ok |-> result.ok] = ExpectedGet(result.name)
  /\ result.op = "List" => ListsRegisteredNames(result.names)

\* C15 witness: the name "custom" was registered twice with different parsers,
\* and Get("custom") returned the later one.
C15_Witness ==
  /\ result.op = "Get" /\ result.name = "custom"
  /\ Cardinality(RegistrationsOf("custom")) = 2
  /\ \E i, j \in RegistrationsOf("custom") : i < j /\ registered[i] # registered[j]
  /\ result.ok
  /\ result.parser = LastRegistered("custom")
  /\ Cardinality(DOMAIN registry) = 2

\* the registered parsers whose Supports accepts the source of dynamic type t
SupportingParsers(r, t) == {n \in DOMAIN r : ParserSupports(r[n], t)}

\* C16: FindParser returns a registered parser that supports the source when
\* at least one registered parser does, and fails with ErrNoSuitableParser
\* exactly when none does; when exactly one supports the source it is the
\* result under every iteration order; FindParser leaves the registry as it was.
C16_FindParserFindsSupporter ==
  [][ (pc = "idle" /\ result'.op = "FindParser") =>
        LET supporting == SupportingParsers(registry, sourceType')
        IN  /\ supporting # {} =>
                 /\ result'.err = Nil
                 /\ \E n \in supporting : result'.parser = registry[n]
            /\ (supporting = {}) <=> (result'.err = ErrNoSuitableParser)
            /\ supporting = {} => result'.parser = Nil
            /\ Cardinality(supporting) = 1 =>
                 \A n \in supporting : result'.parser = registry[n]
            /\ registry' = registry
    ]_vars

\* C16 witness: of three registered parsers exactly one supports the source,
\* and FindParser returned it.
C16_Witness ==
  /\ result.op = "FindParser"
  /\ Cardinality(DOMAIN registry) = 3
  /\ Cardinality(SupportingParsers(registry, sourceType)) = 1
  /\ \A n \in SupportingParsers(registry, sourceType) : result.parser = registry[n]
  /\ result.err = Nil

AllStages == <<"FindParser", "Parse", "Convert">>

\* C17: GoSpec.Convert runs FindParser, Parse and the converter in this order,
\* each at most once; if FindParser fails Parse is not invoked, if Parse fails
\* the converter is not invoked; a failing call returns a nil specification
\* and an error wrapping the error of the failing stage; a specification is
\* returned only when all three stages succeeded.
C17_StagesInOrder ==
  result.op = "Convert" =>
    LET f == FindParser(registry, sourceType, result.porder)
    IN  /\ IF f.err # Nil
             THEN /\ result.calls = <<"FindParser">>
                  /\ result.spec = Nil
                  /\ result.err # Nil /\ result.err.Cause = f.err
             ELSE LET pr == ParserParse(f.parser, sourceType, source, entry)
                  IN  IF pr.err # Nil
                        THEN /\ result.calls = <<"FindParser", "Parse">>
                             /\ result.spec = Nil
                             /\ result.err # Nil /\ result.err.Cause = pr.err
                        ELSE /\ result.calls = AllStages
                             /\ IF pr.parsed = Nil
                                  THEN /\ result.spec = Nil
                                       /\ result.err # Nil
                                       /\ result.err.Cause = ParsedIsNilError
                                  ELSE result.spec # Nil /\ result.err = Nil
        /\ result.spec # Nil => result.err = Nil /\ result.calls = AllStages
        /\ result.spec = Nil => result.err # Nil

\* C17 witness: the parser found failed in Parse; the converter was not
\* invoked and the call returned no specification and the wrapped error.
C17_Witness ==
  /\ result.op = "Convert"
  /\ result.calls = <<"FindParser", "Parse">>
  /\ result.spec = Nil
  /\ result.err.Message = "failed to parse CLI"
  /\ result.err.Cause = ParseFailedError

\* what GoSpec.Convert may return for a source and options when it runs
\* alone on registry r, over the iteration orders of the maps it ranges over
AloneOutcomes(r, src, opts) ==
  UNION {
    {LET out == GoSpecConvert(r, src.type, src.tree, src.e, opts, porder, order1, order2)
     IN  [spec |-> out.spec, err |-> out.err] :
       order1 \in CommandLoopOrders(ParsedFor(r, src.type, src.tree, src.e, porder)),
       order2 \in ComponentLoopOrders(ParsedFor(r, src.type, src.tree, src.e, porder), opts)}
    : porder \in RangeOrders(r)}

\* C20: in every interleaving of two invocations of GoSpec.Convert on
\* independent inputs, with no Register call meanwhile, each invocation
\* returns a result it can return when run alone; a step of one invocation
\* changes neither the registry nor the arguments and locals of the other.
C20_InterleavingsAsAlone ==
  [][ /\ registry' = registry
      /\ \A i \in Invocations :
           /\ inv'[i].src = inv[i].src /\ inv'[i].opts = inv[i].opts
           /\ inv'[i].pc = "done" =>
                [spec |-> inv'[i].spec, err |-> inv'[i].err]
                  \in AloneOutcomes(registry, inv[i].src, inv[i].opts)
           /\ inv'[i] # inv[i] => \A j \in Invocations \ {i} : inv'[j] = inv[j]
    ]_vars

\* C20 witness: both invocations have returned, the first a specification
\* with the shared flag f lifted into its components, the second an error.
C20_Witness ==
  /\ pc = "concurrent"
  /\ inv[1].pc = "done" /\ inv[2].pc = "done"
  /\ inv[1].spec # Nil /\ inv[1].err = Nil
  /\ inv[2].spec = Nil /\ inv[2].err # Nil
  /\ inv[1].src.tree = TwoCommandTree
  /\ "f" \in DOMAIN inv[1].spec.Components.Parameters

\* C23: for a command with no ValidArgs and an Args validator, Parse infers
\* the arity from the validator: NoArgs gives no argument; MinimumNArgs gives
\* one argument with MinArgs >= 1, unbounded maximum (-1) and Required;
\* ExactArgs gives one argument with min/max 1/1; MaximumNArgs one with
\* min/max 0/1; RangeArgs one with min 1 and unbounded maximum.
C23_ArityFromValidator ==
  WasParsed =>
    \A i \in CommandsUnderEntry :
       LET cmd  == source[i]
           args == parsed.infos[i].Args
       IN  (cmd.ValidArgs = <<>> /\ cmd.Args # "nil") =>
             CASE cmd.Args = "NoArgs" -> args = <<>>
               [] cmd.Args = "MinimumNArgs" ->
                    /\ Len(args) = 1
                    /\ args[1].MinArgs >= 1 /\ args[1].MaxArgs = -1
                    /\ args[1].Required
               [] cmd.Args = "ExactArgs" ->
                    Len(args) = 1 /\ args[1].MinArgs = 1 /\ args[1].MaxArgs = 1
               [] cmd.Args = "MaximumNArgs" ->
                    Len(args) = 1 /\ args[1].MinArgs = 0 /\ args[1].MaxArgs = 1
               [] cmd.Args = "RangeArgs" ->
                    Len(args) = 1 /\ args[1].MinArgs = 1 /\ args[1].MaxArgs = -1
               [] OTHER -> TRUE

\* C24: for a command with a non-empty ValidArgs, Parse gives one ArgumentInfo
\* per value in declaration order, each Required, with Position its 1-based
\* index and ValidValues that one value; the Args validator adds no argument.
C24_OneArgumentPerValidArg ==
  WasParsed =>
    \A i \in CommandsUnderEntry :
       LET cmd  == source[i]
           args == parsed.infos[i].Args
       IN  cmd.ValidArgs # <<>> =>
             /\ Len(args) = Len(cmd.ValidArgs)
             /\ \A k \in DOMAIN args :
                  /\ args[k].Required
                  /\ args[k].Position = k
                  /\ args[k].ValidValues = <<cmd.ValidArgs[k]>>

\* C24 witness: a command with the valid arguments json, yaml and the
\* validator ExactArgs was parsed into two arguments.
C24_Witness ==
  /\ WasParsed
  /\ \E i \in CommandsUnderEntry :
       /\ source[i].ValidArgs = <<S_json, S_yaml>>
       /\ source[i].Args = "ExactArgs"
       /\ Len(parsed.infos[i].Args) = 2
       /\ parsed.infos[i].Args[2].Position = 2
       /\ parsed.infos[i].Args[2].ValidValues = <<S_yaml>>

\* command d of the source declares a flag named n itself: n is one of its
\* persistent flags, or a flag of its Flags() that cobra has not merged in
DeclaresItself(d, n) ==
  \/ \E k \in DOMAIN source[d].PersistentFlags : source[d].PersistentFlags[k].Name = n
  \/ ~source[d].Merged /\ \E k \in DOMAIN source[d].Flags : source[d].Flags[k].Name = n

\* the names of the persistent flags that the strict ancestors of d declare
AncestorPersistentNames(d) ==
  UNION {{source[a].PersistentFlags[k].Name : k \in DOMAIN source[a].PersistentFlags} :
         a \in Ancestors(source, d)}

\* C30: a persistent flag declared on an ancestor is recorded on the declaring
\* command only: it is neither in the PersistentFlags nor in the output
\* parameters of a descendant that does not declare it itself.
C30_NoInheritedParameters ==
  WasConverted =>
    \A path \in EmittedPaths :
       LET d      == parsed.Commands[path]
           info   == parsed.infos[d]
           key    == CommandKey(path, info)
       IN  \A n \in AncestorPersistentNames(d) :
              ~DeclaresItself(d, n) =>
                /\ \A k \in DOMAIN info.PersistentFlags : info.PersistentFlags[k].Name # n
                /\ key \in DOMAIN openCLI.Commands =>
                     \A k \in DOMAIN openCLI.Commands[key].Parameters :
                        LET param == openCLI.Commands[key].Parameters[k]
                        IN  param.In = "flag" => param.Name # n

\* C30 on the trees whose flag sets cobra has not merged
C30_NoInheritedParametersUnmerged ==
  (\A i \in DOMAIN source : ~source[i].Merged) => C30_NoInheritedParameters

\* the options in force with ExtractComponents switched the other way
OptsOtherExtraction == [Opts EXCEPT !.ExtractComponents = ~@]

\* C26: component extraction changes no command: the command map is one that
\* the conversion of the same ParsedCLI gives with ExtractComponents switched
\* the other way (flags lifted into the components stay inline); the components
\* section is present exactly when ExtractComponents is set, and then its
\* response table holds exactly "Success" and "Error".
C26_ExtractionKeepsCommands ==
  WasConverted =>
    /\ \E order \in CommandLoopOrders(parsed) :
         openCLI.Commands = convertCommands(parsed, OptsOtherExtraction, order, EmptyMap)
    /\ (openCLI.Components # Nil) <=> Opts.ExtractComponents
    /\ openCLI.Components # Nil =>
         openCLI.Components.Responses = {"Success", "Error"}
    /\ \A path \in EmittedPaths :
         LET info == InfoAt(parsed, path)
             key  == CommandKey(path, info)
         IN  Shape(openCLI.Commands[key].Parameters)
               = ShownFlags(info.Flags, "local")
                 \o ShownFlags(info.PersistentFlags, "inherited")
                 \o [i \in DOMAIN info.Args |->
                       [Name |-> info.Args[i].Name, In |-> "argument", Scope |-> "local"]]

\* C26 witness: the flag f is local to two commands, was lifted into the
\* components, and is still a parameter of an emitted command.
C26_Witness ==
  /\ WasConverted /\ Opts.ExtractComponents
  /\ "f" \in DOMAIN openCLI.Components.Parameters
  /\ \E key \in DOMAIN openCLI.Commands :
       \E k \in DOMAIN openCLI.Commands[key].Parameters :
          /\ openCLI.Commands[key].Parameters[k].In = "flag"
          /\ openCLI.Commands[key].Parameters[k].Name = "f"

\* C28: with IncludeHidden = false no hidden parameter is anywhere in the
\* output, neither in the parameter list of a command nor in the components
\* parameter table, and the components table holds only flags of commands
\* that are themselves emitted.
C28_NoHiddenParameter ==
  (WasConverted /\ ~Opts.IncludeHidden) =>
    /\ \A key \in DOMAIN openCLI.Commands :
         \A k \in DOMAIN openCLI.Commands[key].Parameters :
            ~openCLI.Commands[key].Parameters[k].Hidden
    /\ openCLI.Components # Nil =>
         \A n \in DOMAIN openCLI.Components.Parameters :
            /\ ~openCLI.Components.Parameters[n].Hidden
            /\ \E path \in EmittedPaths : path \in CommandsWithLocalFlag(n)

\* C28, its first part: no hidden parameter in the parameter list of a command
C28_NoHiddenInlineParameter ==
  (WasConverted /\ ~Opts.IncludeHidden) =>
    \A key \in DOMAIN openCLI.Commands :
       \A k \in DOMAIN openCLI.Commands[key].Parameters :
          ~openCLI.Commands[key].Parameters[k].Hidden

\* C29: Convert is deterministic: the specification is the one that the
\* conversion of the same ParsedCLI with the same options gives under every
\* iteration order of the Commands map, in the commands loop and in the
\* components loop.
C29_Deterministic ==
  WasConverted =>
    \A order1, order2 \in RangeOrders(parsed.Commands) :
       openCLI = ConvertSpec(parsed, options, order1, order2)

\* C29 where no two paths get the same output key and no flag name is local to
\* two commands
C29_DeterministicWithoutSharing ==
  (WasConverted /\ ~KeysCollide(parsed) /\ ~FlagNameShared(parsed)) => C29_Deterministic

\* what a pointer or a slice of the specification that refers into the
\* ParsedCLI p reads
Deref(p, ref) ==
  IF ref.field = "MaxArgs"
    THEN p.infos[ref.object[1]].Args[ref.object[2]].MaxArgs
    ELSE p.infos[ref.object][ref.field]

ObservedParameter(param, p) ==
  [param EXCEPT !.Arity =
     IF param.Arity = Nil THEN Nil
     ELSE [Min |-> param.Arity.Min,
           Max |-> IF param.Arity.Max = Nil THEN Nil
                   ELSE [value |-> Deref(p, param.Arity.Max)]]]

ObservedCommand(command, p) ==
  [command EXCEPT
     !.Aliases    = IF command.Aliases = Nil THEN <<>>
                    ELSE SubSeq(Deref(p, command.Aliases.array), 1, command.Aliases.len),
     !.Parameters = [i \in DOMAIN command.Parameters |->
                       ObservedParameter(command.Parameters[i], p)]]

\* the specification as a reader of its fields sees it while the ParsedCLI is p
Observed(spec, p) ==
  [spec EXCEPT !.Commands = [k \in DOMAIN spec.Commands |->
                               ObservedCommand(spec.Commands[k], p)]]

\* C21: the returned specification shares no storage with the ParsedCLI: a
\* write to the ParsedCLI after Convert has returned leaves every field of the
\* specification, the aliases and the arity maximum included, as it was.
C21_NoSharedStorage ==
  [][(pc = "converted" /\ pc' = "written") =>
       Observed(openCLI', parsed') = Observed(openCLI, parsed)]_vars

\* the aliases and the arity maxima of the ParsedCLI p
SharedFields(p) ==
  [a \in DOMAIN p.infos |->
     [Aliases |-> p.infos[a].Aliases,
      MaxArgs |-> [k \in DOMAIN p.infos[a].Args |-> p.infos[a].Args[k].MaxArgs]]]

\* C21 for the writes that change neither an alias nor the MaxArgs of an argument
C21_NoSharedStorageElsewhere ==
  [][(pc = "converted" /\ pc' = "written"
        /\ SharedFields(parsed') = SharedFields(parsed)) =>
       Observed(openCLI', parsed') = Observed(openCLI, parsed)]_vars

\* C22: Convert leaves its inputs unchanged: when it returns, with a
\* specification or with an error, the ParsedCLI with all its CommandInfo,
\* FlagInfo and ArgumentInfo objects and the options object are as before the call.
C22_InputsUnchanged ==
  [][(pc \in {"parsed", "parse_failed"} /\ pc' \in {"converted", "convert_failed"}) =>
       (parsed' = parsed /\ options' = options)]_vars

\* C22 witness: Convert was called with nil options, skipped a hidden command
\* and returned; the ParsedCLI still holds that command and the options are
\* still nil.
C22_Witness ==
  /\ pc = "converted"
  /\ options = Nil
  /\ \E path \in DOMAIN parsed.Commands :
       /\ InfoAt(parsed, path).Hidden
       /\ CommandKey(path, InfoAt(parsed, path)) \notin DOMAIN openCLI.Commands

\* C25: Convert is total on a non-nil ParsedCLI, whatever its fields hold and
\* whatever the options are: it ends without a runtime failure and returns a
\* specification and no error.
C25_ConvertIsTotal ==
  (pc \in {"converted", "convert_failed", "panicked"} /\ parsed # Nil) =>
    (pc = "converted" /\ openCLI # Nil /\ err = Nil)

\* C25 for the ParsedCLI values that have a Metadata
C25_TotalWithMetadata ==
  (pc \in {"converted", "convert_failed", "panicked"} /\ parsed # Nil
     /\ parsed.Metadata # Nil) =>
    (pc = "converted" /\ openCLI # Nil /\ err = Nil)

\* C27: the Info of the specification is CustomInfo, field for field, when the
\* options have one; otherwise title, description and version are the name,
\* description and version of the Metadata, a contact is present exactly when
\* author or homepage is not empty, and a license exactly when the license is
\* not empty.
C27_InfoRule ==
  pc = "converted" =>
    IF options # Nil /\ options.CustomInfo # Nil
      THEN openCLI.Info = options.CustomInfo
      ELSE LET md   == parsed.Metadata
               info == openCLI.Info
           IN  /\ info.Title = md.Name
               /\ info.Description = md.Description
               /\ info.Version = md.Version
               /\ (info.Contact # Nil) <=> (md.Author # "" \/ md.Homepage # "")
               /\ info.Contact # Nil =>
                    info.Contact = [Name |-> md.Author, URL |-> md.Homepage]
               /\ (info.License # Nil) <=> (md.License # "")
               /\ info.License # Nil => info.License = [Name |-> md.License]

\* C27 witness: a conversion without CustomInfo of a ParsedCLI whose metadata
\* has a homepage and no author gave a contact and a license.
C27_Witness ==
  /\ pc = "converted"
  /\ options # Nil /\ options.CustomInfo = Nil
  /\ parsed.Metadata.Author = "" /\ parsed.Metadata.Homepage # ""
  /\ openCLI.Info.Contact # Nil /\ openCLI.Info.License # Nil

\* C27 second case: a conversion with CustomInfo of a ParsedCLI whose metadata
\* says otherwise
C27_WitnessCustomInfo ==
  /\ pc = "converted"
  /\ options # Nil /\ options.CustomInfo = CustomInfoInput
  /\ parsed.Metadata.Version = "1.0.0"
  /\ openCLI.Info.Version = "9.9.9"

====
